---- MODULE Spec2Model ----
(***************************************************************************)
(* Concurrency examples of go-study (05-advanced/02-concurrency):          *)
(* goroutines.go (WaitGroup, worker pool, timeout) and channels.go (plain   *)
(* channels, select, producer/consumer, fan-in, fan-out, pipeline).  Every *)
(* example is a small Go program of goroutines talking over channels; each *)
(* gets its own specification over the same state.                         *)
(*                                                                         *)
(* Go semantics modelled:                                                  *)
(*  - a channel is a FIFO buffer of fixed capacity plus a closed flag;     *)
(*    a send on a channel of capacity 0 completes only together with a     *)
(*    receive (rendezvous), so it is one step of sender and receiver;      *)
(*  - a send on a closed channel, a close of a closed channel and a        *)
(*    negative WaitGroup counter panic; an unrecovered panic ends the      *)
(*    whole program (no goroutine takes another step);                     *)
(*  - `for v := range c` receives until c is closed and drained;           *)
(*  - time.Sleep and printing take no part in the synchronisation and are  *)
(*    steps of their own only where a claim looks at them.                 *)
(***************************************************************************)
EXTENDS Integers, Sequences, FiniteSets, TLC

VARIABLES
    cfg,        \* the parameters the example runs with (drawn in Init)
    pc,         \* goroutine -> the statement it is at
    loc,        \* goroutine -> its local variables
    ch,         \* channel -> [buf, closed, closes]
    wg,         \* the counter of the sync.WaitGroup
    out,        \* consumer -> the values it has received so far, in order
    panicked,   \* "none", or the runtime panic that ended the program
    now         \* the clock of the timed examples

vars == <<cfg, pc, loc, ch, wg, out, panicked, now>>

\* ------------------------------------------------------------------ bounds
\* The most tasks a worker pool is given (numTasks is 8 in the source).
MaxTasks == 3

\* The most inputs fanIn is given, and the most values one input carries
\* (2 inputs of 5 values in fanInExample).
MaxInputs == 2
MaxItems == 2

\* The most values the source of fanOut sends (10 in fanOutExample).
MaxValues == 6

\* The longest sleep or timeout of the timeout example, in seconds.
MaxDelay == 4

\* The most jobs one producer of producerConsumerExample sends (10 in the
\* source), and the largest capacity its channels are given (5 in the source).
MaxCount == 1
MaxBuffer == 1

\* The most goroutines raceConditionExample starts, and the most increments
\* each of them makes (100 of each in the source).
MaxGoroutines == 2
MaxIncrements == 2

\* The most attempts readFileWithRetry is allowed (3 in fileOperationExample).
MaxRetries == 3

\* RateLimiter: the most requests a client is allowed per window (60 in the
\* source), the longest window in clock ticks (one minute in the source), the
\* instant the clock stops at, and the most requests in flight at a time.
MaxLimit == 2
MaxWindow == 2
MaxClock == 2
MaxInFlight == 2

\* --------------------------------------------------------- program constants
\* channels.go:264, const numWorkers = 3: fanOut is run with every number of
\* outputs from 1 up to it.
fanOutWorkers == 3

\* channels.go:319, generateNumbers(1, 10)
pipeStart == 1
pipeEnd == 10

\* channels.go:323, n > 20
pipeThreshold == 20

\* goroutines.go:242, time.Sleep(3 * time.Second)
taskSeconds == 3

\* goroutines.go:235, timeout := 2 * time.Second
timeoutSeconds == 2

\* channels.go:76, time.After(3 * time.Second)
selectSeconds == 3

\* goroutines.go:91, const numWorkers = 3: the pool is run with every worker
\* count from 1 up to it.
numWorkers == 3

\* ---------------------------------------------------------------- channels
\* make(chan T, n): an open, empty channel.  closes counts the close() calls
\* that reached the channel (the second one panics).
NewChan == [buf |-> <<>>, closed |-> FALSE, closes |-> 0]

\* Faulty variant: a send that drops the value when the buffer holds one.
EnqueueOrDrop(c, v) == IF Len(c.buf) >= 1 THEN c ELSE [c EXCEPT !.buf = Append(@, v)]
\* ch <- v on a buffered channel with room.
Enqueue(c, v) == [c EXCEPT !.buf = Append(@, v)]

\* <-ch taking the oldest buffered value.
Dequeue(c) == [c EXCEPT !.buf = Tail(@)]

\* close(ch)
Closed(c) == [c EXCEPT !.closed = TRUE, !.closes = @ + 1]

\* wg.Add(delta) / wg.Done()
WgAdd(n, delta) == n + delta

\* Faulty variant: a Wait that does not wait.
WaitNoBlock(n) == TRUE
\* wg.Wait() returns when the counter is zero.
WaitReleased(n) == n = 0

\* Goroutine p (of the program that runs) is at statement l, and the program
\* has not panicked.
At(p, l) == panicked = "none" /\ p \in DOMAIN pc /\ pc[p] = l

\* ---------------------------------------------------------------- goroutines
Main == <<"main", 0>>
Sender == <<"sender", 0>>
Collector == <<"collector", 0>>
Worker(i) == <<"worker", i>>

\* ====================================================== workerPoolExample
\* goroutines.go:88-130 with worker (68-85).  cfg.workers and cfg.tasks are
\* the worker and task counts of a run (3 and 8 in the source).
PoolProcs(c) == {Main, Sender, Collector} \cup {Worker(i) : i \in 1..c.workers}

\* Task{ID: i, Name: "任务_i", Data: "数据_(i*10)"}
Task(i) == [ID |-> i, Data |-> i * 10]

\* result := Sprintf("Worker %d 完成任务 %d: %s -> 处理了 %s", id, task.ID, ...)
ResultOf(id, task) == [worker |-> id, task |-> task.ID, data |-> task.Data]

\* The locals of a goroutine: the loop counter i (the loops start at 1), and
\* the task and result of the iteration a worker is in (zero values outside
\* one: both are scoped to the loop body).
NoLocals == [i |-> 1, task |-> Task(0), result |-> ResultOf(0, Task(0))]

InitPool ==
    /\ cfg \in [prog : {"pool"}, workers : 1..numWorkers, tasks : 0..MaxTasks, failing : {{}}]
    /\ pc = [p \in PoolProcs(cfg) |-> IF p = Main THEN "add" ELSE "unstarted"]
    /\ loc = [p \in PoolProcs(cfg) |-> NoLocals]
    /\ ch = [c \in {"tasks", "results"} |-> NewChan]
    /\ wg = 0
    /\ out = [p \in {Main} |-> <<>>]
    /\ panicked = "none"
    /\ now = 0

\* make(chan Task, numTasks), make(chan string, numTasks)
PoolCap(c) == cfg.tasks

\* line 101-102: for i := 1; i <= numWorkers; i++ { wg.Add(1)
MainAdd ==
    /\ At(Main, "add")
    /\ IF loc[Main].i <= cfg.workers
       THEN /\ wg' = WgAdd(wg, 1)
            /\ pc' = [pc EXCEPT ![Main] = "go"]
       ELSE /\ pc' = [pc EXCEPT ![Main] = "go_sender"]
            /\ wg' = wg
    /\ UNCHANGED <<cfg, loc, ch, out, panicked, now>>

\* line 103: go worker(i, tasks, results, &wg)
MainGoWorker ==
    /\ At(Main, "go")
    /\ pc' = [pc EXCEPT ![Main] = "add", ![Worker(loc[Main].i)] = "range"]
    /\ loc' = [loc EXCEPT ![Main].i = @ + 1]
    /\ UNCHANGED <<cfg, ch, wg, out, panicked, now>>

\* line 107: go func() { ... }() (the task sender)
MainGoSender ==
    /\ At(Main, "go_sender")
    /\ pc' = [pc EXCEPT ![Main] = "go_collector", ![Sender] = "loop"]
    /\ UNCHANGED <<cfg, loc, ch, wg, out, panicked, now>>

\* line 120: go func() { wg.Wait(); close(results) }()
MainGoCollector ==
    /\ At(Main, "go_collector")
    /\ pc' = [pc EXCEPT ![Main] = "range", ![Collector] = "wait"]
    /\ UNCHANGED <<cfg, loc, ch, wg, out, panicked, now>>

\* line 127-129: for result := range results { Println(result) }
MainCollect ==
    /\ At(Main, "range")
    /\ IF Len(ch["results"].buf) > 0
       THEN /\ out' = [out EXCEPT ![Main] = Append(@, Head(ch["results"].buf))]
            /\ ch' = [ch EXCEPT !["results"] = Dequeue(@)]
            /\ pc' = pc
       ELSE /\ ch["results"].closed
            /\ pc' = [pc EXCEPT ![Main] = "done"]
            /\ UNCHANGED <<ch, out>>
    /\ UNCHANGED <<cfg, loc, wg, panicked, now>>

\* line 108-115: for i := 1; i <= numTasks; i++ { tasks <- task }
SenderSend ==
    /\ At(Sender, "loop")
    /\ loc[Sender].i <= cfg.tasks
    /\ IF ch["tasks"].closed
       THEN /\ panicked' = "send on closed channel"
            /\ UNCHANGED <<ch, loc>>
       ELSE /\ Len(ch["tasks"].buf) < PoolCap("tasks")
            /\ ch' = [ch EXCEPT !["tasks"] = Enqueue(@, Task(loc[Sender].i))]
            /\ loc' = [loc EXCEPT ![Sender].i = @ + 1]
            /\ panicked' = panicked
    /\ UNCHANGED <<cfg, pc, wg, out, now>>

\* line 116: close(tasks)
SenderClose ==
    /\ At(Sender, "loop")
    /\ loc[Sender].i > cfg.tasks
    /\ pc' = [pc EXCEPT ![Sender] = "done"]
    /\ ch' = [ch EXCEPT !["tasks"] = Closed(@)]
    /\ panicked' = IF ch["tasks"].closed THEN "close of closed channel" ELSE panicked
    /\ UNCHANGED <<cfg, loc, wg, out, now>>

\* Faulty variant: a receive that reports the closed channel as soon as it is
\* closed, whatever the buffer still holds.
WorkerRangeClosedFirst(i) ==
    /\ At(Worker(i), "range")
    /\ IF ch["tasks"].closed
       THEN /\ pc' = [pc EXCEPT ![Worker(i)] = "exit"]
            /\ UNCHANGED <<ch, loc>>
       ELSE /\ Len(ch["tasks"].buf) > 0
            /\ loc' = [loc EXCEPT ![Worker(i)].task = Head(ch["tasks"].buf)]
            /\ ch' = [ch EXCEPT !["tasks"] = Dequeue(@)]
            /\ pc' = [pc EXCEPT ![Worker(i)] = "work"]
    /\ UNCHANGED <<cfg, wg, out, panicked, now>>
\* line 71: for task := range tasks
WorkerRange(i) ==
    /\ At(Worker(i), "range")
    /\ IF Len(ch["tasks"].buf) > 0
       THEN /\ loc' = [loc EXCEPT ![Worker(i)].task = Head(ch["tasks"].buf)]
            /\ ch' = [ch EXCEPT !["tasks"] = Dequeue(@)]
            /\ pc' = [pc EXCEPT ![Worker(i)] = "work"]
       ELSE /\ ch["tasks"].closed
            /\ pc' = [pc EXCEPT ![Worker(i)] = "exit"]
            /\ UNCHANGED <<ch, loc>>
    /\ UNCHANGED <<cfg, wg, out, panicked, now>>

\* line 72-79: Sleep(task.ID*100ms); result := Sprintf(...).  The worker has
\* no recover(): were the processing of a task to panic (cfg.failing, empty
\* for the processing of the source), the deferred wg.Done() of line 69 runs
\* while the stack unwinds and the panic then ends the program.
WorkerProcess(i) ==
    /\ At(Worker(i), "work")
    /\ IF loc[Worker(i)].task.ID \in cfg.failing
       THEN /\ panicked' = "panic in worker"
            /\ wg' = WgAdd(wg, -1)
            /\ pc' = [pc EXCEPT ![Worker(i)] = "panicked"]
            /\ loc' = loc
       ELSE /\ loc' = [loc EXCEPT ![Worker(i)].result = ResultOf(i, loc[Worker(i)].task)]
            /\ pc' = [pc EXCEPT ![Worker(i)] = "send"]
            /\ UNCHANGED <<wg, panicked>>
    /\ UNCHANGED <<cfg, ch, out, now>>

\* line 81: results <- result
WorkerSend(i) ==
    /\ At(Worker(i), "send")
    /\ IF ch["results"].closed
       THEN /\ panicked' = "send on closed channel"
            /\ UNCHANGED <<ch, pc, loc>>
       ELSE /\ Len(ch["results"].buf) < PoolCap("results")
            /\ ch' = [ch EXCEPT !["results"] = Enqueue(@, loc[Worker(i)].result)]
            /\ pc' = [pc EXCEPT ![Worker(i)] = "range"]
            /\ loc' = [loc EXCEPT ![Worker(i)] = NoLocals]
            /\ panicked' = panicked
    /\ UNCHANGED <<cfg, wg, out, now>>

\* Faulty variant: every worker closes results when it exits.
WorkerExitClosing(i) ==
    /\ At(Worker(i), "exit")
    /\ wg' = WgAdd(wg, -1)
    /\ ch' = [ch EXCEPT !["results"] = Closed(@)]
    /\ panicked' = IF ch["results"].closed THEN "close of closed channel" ELSE panicked
    /\ pc' = [pc EXCEPT ![Worker(i)] = "done"]
    /\ UNCHANGED <<cfg, loc, out, now>>
\* line 84 and the deferred wg.Done() of line 69
WorkerExit(i) ==
    /\ At(Worker(i), "exit")
    /\ wg' = WgAdd(wg, -1)
    /\ panicked' = IF wg' < 0 THEN "sync: negative WaitGroup counter" ELSE panicked
    /\ pc' = [pc EXCEPT ![Worker(i)] = "done"]
    /\ UNCHANGED <<cfg, loc, ch, out, now>>

\* line 121: wg.Wait()
CollectorWait ==
    /\ At(Collector, "wait")
    /\ WaitReleased(wg)
    /\ pc' = [pc EXCEPT ![Collector] = "close"]
    /\ UNCHANGED <<cfg, loc, ch, wg, out, panicked, now>>

\* line 122: close(results)
CollectorClose ==
    /\ At(Collector, "close")
    /\ pc' = [pc EXCEPT ![Collector] = "done"]
    /\ ch' = [ch EXCEPT !["results"] = Closed(@)]
    /\ panicked' = IF ch["results"].closed THEN "close of closed channel" ELSE panicked
    /\ UNCHANGED <<cfg, loc, wg, out, now>>

NextPool ==
    \/ MainAdd
    \/ MainGoWorker
    \/ MainGoSender
    \/ MainGoCollector
    \/ MainCollect
    \/ SenderSend
    \/ SenderClose
    \/ \E i \in 1..cfg.workers : WorkerRange(i)
    \/ \E i \in 1..cfg.workers : WorkerProcess(i)
    \/ \E i \in 1..cfg.workers : WorkerSend(i)
    \/ \E i \in 1..cfg.workers : WorkerExit(i)
    \/ CollectorWait
    \/ CollectorClose

SpecPool == InitPool /\ [][NextPool]_vars

\* The Go scheduler runs every runnable goroutine eventually.
FairPool == SpecPool /\ WF_vars(NextPool)

\* The pool given tasks whose processing panics: cfg.failing is any set of
\* the submitted tasks.
InitPoolFail ==
    /\ \E n \in 0..MaxTasks :
          cfg \in [prog : {"pool"}, workers : 1..numWorkers, tasks : {n}, failing : SUBSET (1..n)]
    /\ pc = [p \in PoolProcs(cfg) |-> IF p = Main THEN "add" ELSE "unstarted"]
    /\ loc = [p \in PoolProcs(cfg) |-> NoLocals]
    /\ ch = [c \in {"tasks", "results"} |-> NewChan]
    /\ wg = 0
    /\ out = [p \in {Main} |-> <<>>]
    /\ panicked = "none"
    /\ now = 0

SpecPoolFail == InitPoolFail /\ [][NextPool]_vars

\* ---------------------------------------------------- worker pool: claims
\* The task IDs of the results main has printed, in order.
PoolCollected == [j \in 1..Len(out[Main]) |-> out[Main][j].task]

\* Every task 1..numTasks shows exactly once in s.
EachTaskOnce(s) ==
    /\ Len(s) = cfg.tasks
    /\ \A t \in 1..cfg.tasks : Cardinality({j \in 1..Len(s) : s[j] = t}) = 1

NoTaskTwice(s) == \A j, k \in 1..Len(s) : s[j] = s[k] => j = k

\* C1: for N tasks sent and the task queue closed, with W >= 1 workers, in
\* every interleaving the collector eventually sees the result queue closed,
\* and by then it has received exactly one result per task (none lost, none
\* twice); no result is ever received twice on the way.
C1_Conservation ==
    /\ <>(pc[Main] = "done")
    /\ [](pc[Main] = "done" => EachTaskOnce(PoolCollected))
    /\ []NoTaskTwice(PoolCollected)

C1_Witness ==
    /\ pc[Main] = "done"
    /\ cfg.tasks = MaxTasks
    /\ cfg.workers >= 2
    /\ Len(out[Main]) = MaxTasks
    /\ \E j, k \in 1..Len(out[Main]) : out[Main][j].worker # out[Main][k].worker

\* C5: the result queue is closed only after every worker has left its loop
\* and called Done, and no worker ever sends on the closed result queue.
C5_CloseAfterAllWorkers ==
    /\ ch["results"].closes > 0 => \A i \in 1..cfg.workers : pc[Worker(i)] = "done"
    /\ panicked # "send on closed channel"

C5_Witness ==
    /\ ch["results"].closed
    /\ cfg.workers = numWorkers
    /\ cfg.tasks >= 2
    /\ Len(ch["results"].buf) + Len(out[Main]) = cfg.tasks

\* C6: the result queue is closed at most once at any time (a double-close
\* panic is unreachable), and exactly once by the time the collector goroutine
\* or the main loop has finished.
C6_ClosedExactlyOnce ==
    /\ ch["results"].closes <= 1
    /\ panicked # "close of closed channel"
    /\ (pc[Collector] = "done" \/ pc[Main] = "done") => ch["results"].closes = 1

\* All workers have called Done before the collector runs: the back-to-back case.
C6_Witness ==
    /\ ch["results"].closes = 1
    /\ cfg.workers = numWorkers
    /\ cfg.tasks = numWorkers
    /\ \A i \in 1..cfg.workers : \E j \in 1..Len(out[Main]) : out[Main][j].worker = i

TasksTaken ==
    Cardinality({i \in 1..cfg.workers : pc[Worker(i)] \in {"work", "send"}})
       + Len(ch["results"].buf) + Len(out[Main])

\* C11: the values buffered in the task queue when it is closed stay
\* receivable, in order: after the close the buffer only loses its head, to a
\* worker that receives exactly that value; a worker's range loop ends only on
\* the closed and empty queue; and when the workers have all left their loops
\* every task sent has been processed, also when close(tasks) came before the
\* first receive.
C11_CloseThenDrain ==
    /\ [][ch["tasks"].closed =>
             /\ ch'["tasks"].closed
             /\ \/ ch'["tasks"].buf = ch["tasks"].buf
                \/ /\ ch["tasks"].buf # <<>>
                   /\ ch'["tasks"].buf = Tail(ch["tasks"].buf)
                   /\ \E i \in 1..cfg.workers :
                         /\ pc[Worker(i)] = "range"
                         /\ pc'[Worker(i)] = "work"
                         /\ loc'[Worker(i)].task = Head(ch["tasks"].buf)]_vars
    /\ [][\A i \in 1..cfg.workers :
             (pc[Worker(i)] = "range" /\ pc'[Worker(i)] = "exit") =>
                (ch["tasks"].closed /\ ch["tasks"].buf = <<>>)]_vars
    /\ []((\A i \in 1..cfg.workers : pc[Worker(i)] \in {"exit", "done"}) =>
             (pc[Sender] = "done" /\ TasksTaken = cfg.tasks))

\* close(tasks) has come before any receive: the queue is closed with every
\* task still in it, and the first worker has then received the oldest one.
C11_Witness ==
    /\ ch["tasks"].closed
    /\ cfg.tasks = MaxTasks
    /\ cfg.workers = 1
    /\ pc[Worker(1)] = "work"
    /\ loc[Worker(1)].task = Task(1)
    /\ Len(ch["tasks"].buf) = MaxTasks - 1
    /\ ch["results"].buf = <<>>
    /\ out[Main] = <<>>

\* ============================================================ fanIn
\* channels.go:223-245 (fanIn) driven as in fanInExample (189-220): every
\* input has a source goroutine that sends its values and closes it.  The
\* example has 2 inputs of 5 values; cfg.items[k] is the number of values of
\* input k.  All channels are unbuffered.
Producer(k) == <<"producer", k>>
Forwarder(k) == <<"forwarder", k>>
Closer == <<"closer", 0>>
Input(k) == <<"input", k>>
Output == <<"output", 0>>

FanInProcs(c) ==
    {Main, Closer} \cup {Producer(k) : k \in 1..c.inputs} \cup {Forwarder(k) : k \in 1..c.inputs}

\* fmt.Sprintf("输入k-%d", i)
Datum(k, i) == <<k, i>>

\* A goroutine's loop counter and the value of the iteration it is in.
FanLocals == [i |-> 1, data |-> Datum(0, 0)]

InitFanIn ==
    /\ \E n \in 0..MaxInputs :
          cfg \in [prog : {"fanIn"}, inputs : {n}, items : [1..n -> 0..MaxItems]]
    /\ pc = [p \in FanInProcs(cfg) |-> IF p = Main THEN "go_source" ELSE "unstarted"]
    /\ loc = [p \in FanInProcs(cfg) |-> FanLocals]
    /\ ch = [c \in {Output} \cup {Input(k) : k \in 1..cfg.inputs} |-> NewChan]
    /\ wg = 0
    /\ out = [p \in {Main} |-> <<>>]
    /\ panicked = "none"
    /\ now = 0

\* line 197, 205: go func() { ... }() (the source of each input)
FanInGoSource ==
    /\ At(Main, "go_source")
    /\ IF loc[Main].i <= cfg.inputs
       THEN /\ pc' = [pc EXCEPT ![Producer(loc[Main].i)] = "loop"]
            /\ loc' = [loc EXCEPT ![Main].i = @ + 1]
       ELSE /\ pc' = [pc EXCEPT ![Main] = "add"]
            /\ loc' = [loc EXCEPT ![Main].i = 1]
    /\ UNCHANGED <<cfg, ch, wg, out, panicked, now>>

\* Faulty variant: the forwarders are started without wg.Add(1).
FanInAddSkipped ==
    /\ At(Main, "add")
    /\ pc' = [pc EXCEPT ![Main] = IF loc[Main].i <= cfg.inputs THEN "go" ELSE "go_closer"]
    /\ UNCHANGED <<cfg, loc, ch, wg, out, panicked, now>>
\* Faulty variant: wg.Add(1) ahead of the loop test, so once more than there
\* are forwarders.
FanInAddFirst ==
    /\ At(Main, "add")
    /\ wg' = WgAdd(wg, 1)
    /\ pc' = [pc EXCEPT ![Main] = IF loc[Main].i <= cfg.inputs THEN "go" ELSE "go_closer"]
    /\ UNCHANGED <<cfg, loc, ch, out, panicked, now>>
\* line 228-229: for _, input := range inputs { wg.Add(1)
FanInAdd ==
    /\ At(Main, "add")
    /\ IF loc[Main].i <= cfg.inputs
       THEN /\ wg' = WgAdd(wg, 1)
            /\ pc' = [pc EXCEPT ![Main] = "go"]
       ELSE /\ pc' = [pc EXCEPT ![Main] = "go_closer"]
            /\ wg' = wg
    /\ UNCHANGED <<cfg, loc, ch, out, panicked, now>>

\* line 230-235: go func(ch <-chan string) { ... }(input)
FanInGoForwarder ==
    /\ At(Main, "go")
    /\ pc' = [pc EXCEPT ![Main] = "add", ![Forwarder(loc[Main].i)] = "range"]
    /\ loc' = [loc EXCEPT ![Main].i = @ + 1]
    /\ UNCHANGED <<cfg, ch, wg, out, panicked, now>>

\* line 239-244: go func() { wg.Wait(); close(output) }(); return output
FanInGoCloser ==
    /\ At(Main, "go_closer")
    /\ pc' = [pc EXCEPT ![Main] = "range", ![Closer] = "wait"]
    /\ UNCHANGED <<cfg, loc, ch, wg, out, panicked, now>>

\* Faulty variant: the forwarders do not each have their own input (the
\* closure reads the loop variable instead of its argument), so any of them
\* may take a value of input k.
SourceSendShared(k) ==
    /\ At(Producer(k), "loop")
    /\ loc[Producer(k)].i <= cfg.items[k]
    /\ IF ch[Input(k)].closed
       THEN /\ panicked' = "send on closed channel"
            /\ UNCHANGED <<pc, loc>>
       ELSE /\ \E f \in 1..cfg.inputs :
                  /\ pc[Forwarder(f)] = "range"
                  /\ pc' = [pc EXCEPT ![Forwarder(f)] = "send"]
                  /\ loc' = [loc EXCEPT ![Forwarder(f)].data = Datum(k, loc[Producer(k)].i),
                                        ![Producer(k)].i = @ + 1]
            /\ panicked' = panicked
    /\ UNCHANGED <<cfg, ch, wg, out, now>>
\* line 199 (207) meeting line 232: the source's send on the unbuffered input
\* is the forwarder's receive.
SourceSend(k) ==
    /\ At(Producer(k), "loop")
    /\ loc[Producer(k)].i <= cfg.items[k]
    /\ IF ch[Input(k)].closed
       THEN /\ panicked' = "send on closed channel"
            /\ UNCHANGED <<pc, loc>>
       ELSE /\ pc[Forwarder(k)] = "range"
            /\ pc' = [pc EXCEPT ![Forwarder(k)] = "send"]
            /\ loc' = [loc EXCEPT ![Forwarder(k)].data = Datum(k, loc[Producer(k)].i),
                                  ![Producer(k)].i = @ + 1]
            /\ panicked' = panicked
    /\ UNCHANGED <<cfg, ch, wg, out, now>>

\* line 202 (210): close(input)
SourceClose(k) ==
    /\ At(Producer(k), "loop")
    /\ loc[Producer(k)].i > cfg.items[k]
    /\ pc' = [pc EXCEPT ![Producer(k)] = "done"]
    /\ ch' = [ch EXCEPT ![Input(k)] = Closed(@)]
    /\ panicked' = IF ch[Input(k)].closed THEN "close of closed channel" ELSE panicked
    /\ UNCHANGED <<cfg, loc, wg, out, now>>

\* line 232: for data := range ch, on the closed input: the loop ends.
ForwarderRangeEnd(k) ==
    /\ At(Forwarder(k), "range")
    /\ ch[Input(k)].closed
    /\ pc' = [pc EXCEPT ![Forwarder(k)] = "exit"]
    /\ UNCHANGED <<cfg, loc, ch, wg, out, panicked, now>>

\* line 233 meeting line 217: output <- data is main's receive.
ForwarderSend(k) ==
    /\ At(Forwarder(k), "send")
    /\ IF ch[Output].closed
       THEN /\ panicked' = "send on closed channel"
            /\ UNCHANGED <<pc, loc, out>>
       ELSE /\ pc[Main] = "range"
            /\ out' = [out EXCEPT ![Main] = Append(@, loc[Forwarder(k)].data)]
            /\ pc' = [pc EXCEPT ![Forwarder(k)] = "range"]
            /\ loc' = [loc EXCEPT ![Forwarder(k)].data = Datum(0, 0)]
            /\ panicked' = panicked
    /\ UNCHANGED <<cfg, ch, wg, now>>

\* line 231: defer wg.Done()
ForwarderDone(k) ==
    /\ At(Forwarder(k), "exit")
    /\ wg' = WgAdd(wg, -1)
    /\ panicked' = IF wg' < 0 THEN "sync: negative WaitGroup counter" ELSE panicked
    /\ pc' = [pc EXCEPT ![Forwarder(k)] = "done"]
    /\ UNCHANGED <<cfg, loc, ch, out, now>>

\* line 240: wg.Wait()
CloserWait ==
    /\ At(Closer, "wait")
    /\ WaitReleased(wg)
    /\ pc' = [pc EXCEPT ![Closer] = "close"]
    /\ UNCHANGED <<cfg, loc, ch, wg, out, panicked, now>>

\* line 241: close(output)
CloserClose ==
    /\ At(Closer, "close")
    /\ pc' = [pc EXCEPT ![Closer] = "done"]
    /\ ch' = [ch EXCEPT ![Output] = Closed(@)]
    /\ panicked' = IF ch[Output].closed THEN "close of closed channel" ELSE panicked
    /\ UNCHANGED <<cfg, loc, wg, out, now>>

\* line 217-219: for data := range output, on the closed output: the loop ends.
FanInRangeEnd ==
    /\ At(Main, "range")
    /\ ch[Output].closed
    /\ pc' = [pc EXCEPT ![Main] = "done"]
    /\ UNCHANGED <<cfg, loc, ch, wg, out, panicked, now>>

NextFanIn ==
    \/ FanInGoSource
    \/ FanInAdd
    \/ FanInGoForwarder
    \/ FanInGoCloser
    \/ \E k \in 1..cfg.inputs : SourceSend(k)
    \/ \E k \in 1..cfg.inputs : SourceClose(k)
    \/ \E k \in 1..cfg.inputs : ForwarderRangeEnd(k)
    \/ \E k \in 1..cfg.inputs : ForwarderSend(k)
    \/ \E k \in 1..cfg.inputs : ForwarderDone(k)
    \/ CloserWait
    \/ CloserClose
    \/ FanInRangeEnd

SpecFanIn == InitFanIn /\ [][NextFanIn]_vars

\* The Go scheduler runs every runnable goroutine eventually.
FairFanIn == SpecFanIn /\ WF_vars(NextFanIn)

\* ----------------------------------------------------------- fanIn: claims
\* The number of values j of input k that main has received.
Delivered(k, j) == Cardinality({n \in 1..Len(out[Main]) : out[Main][n] = Datum(k, j)})

\* Every value of every input shows exactly once in what main received.
FanInAllOnce ==
    \A k \in 1..cfg.inputs :
       /\ \A j \in 1..cfg.items[k] : Delivered(k, j) = 1
       /\ \A n \in 1..Len(out[Main]) : out[Main][n][1] = k => out[Main][n][2] \in 1..cfg.items[k]

\* C2: with K inputs of m_k values each, then closed, the output delivers
\* exactly the sum of the m_k values (each once) and is then seen closed; the
\* output is not closed before every forwarder has exhausted its input and
\* delivered its last value, and no forwarder sends on the closed output.
C2_FanInConservation ==
    /\ <>(pc[Main] = "done")
    /\ [](pc[Main] = "done" => FanInAllOnce)
    /\ [](ch[Output].closes > 0 =>
             \A k \in 1..cfg.inputs :
                /\ pc[Forwarder(k)] = "done"
                /\ \A j \in 1..cfg.items[k] : Delivered(k, j) = 1)
    /\ [](panicked = "none")

C2_Witness ==
    /\ pc[Main] = "done"
    /\ cfg.inputs = MaxInputs
    /\ \A k \in 1..cfg.inputs : cfg.items[k] = MaxItems
    /\ Len(out[Main]) = MaxInputs * MaxItems
    /\ out[Main][1][1] # out[Main][2][1]

\* C17: fanIn given no input channel closes its output at once: the WaitGroup
\* counter stays 0, so the closing goroutine's Wait never blocks; no value is
\* ever delivered; and the first receive of the caller sees the channel closed
\* (its range loop ends), so the call does not hang.
C17_ZeroInputsCloseAtOnce ==
    /\ [](cfg.inputs = 0 => (wg = 0 /\ out[Main] = <<>> /\ panicked = "none"))
    /\ (cfg.inputs = 0) ~> (pc[Main] = "done" /\ ch[Output].closes = 1 /\ out[Main] = <<>>)

C17_Witness ==
    /\ cfg.inputs = 0
    /\ pc[Main] = "done"
    /\ pc[Closer] = "done"
    /\ ch[Output].closes = 1
    /\ out[Main] = <<>>

\* The values of input k that main has received, in the order received.
FromInput(k) ==
    LET OfInput(d) == d[1] = k
    IN  SelectSeq(out[Main], OfInput)

\* C18: in every interleaving the values of each input reach the merged
\* output in the order they were sent on that input (value 1 of the input,
\* then value 2, ...); with a single input the output is that input's
\* sequence, whole once the output is seen closed.
C18_PerInputOrder ==
    /\ \A k \in 1..cfg.inputs :
          FromInput(k) = [j \in 1..Len(FromInput(k)) |-> Datum(k, j)]
    /\ cfg.inputs = 1 =>
          /\ out[Main] = [j \in 1..Len(out[Main]) |-> Datum(1, j)]
          /\ pc[Main] = "done" => Len(out[Main]) = cfg.items[1]

\* Two inputs of two values merged with input 2 overtaking input 1.
C18_Witness ==
    /\ pc[Main] = "done"
    /\ cfg.inputs = MaxInputs
    /\ out[Main] = <<Datum(1, 1), Datum(2, 1), Datum(2, 2), Datum(1, 2)>>

\* ============================================================ fanOut
\* channels.go:285-312 (fanOut) driven as in fanOutExample (248-282): a source
\* sends 1..cfg.values on the input and closes it (10 values in the source),
\* fanOut deals them to cfg.workers unbuffered outputs, each read by one
\* consumer goroutine.  Outputs are numbered from 0, as the slice is.
Source == <<"source", 0>>
Dispatcher == <<"dispatcher", 0>>
Consumer(k) == <<"consumer", k>>
FanOutInput == <<"input", 0>>
Outputs(k) == <<"outputs", k>>

FanOutProcs(c) == {Main, Source, Dispatcher} \cup {Consumer(k) : k \in 0..(c.workers - 1)}

\* Faulty variant: the round robin starts one output late.
SlotOffByOne(i, n) == (i + 1) % n
\* line 306: outputs[i%numWorkers]
Slot(i, n) == i % n

\* The locals: a loop counter i, and the value data of the iteration.
NoData == [i |-> 0, data |-> 0]

InitFanOut ==
    /\ cfg \in [prog : {"fanOut"}, values : 0..MaxValues, workers : 1..fanOutWorkers]
    /\ pc = [p \in FanOutProcs(cfg) |-> IF p = Main THEN "go_source" ELSE "unstarted"]
    /\ loc = [p \in FanOutProcs(cfg) |-> IF p = Source THEN [NoData EXCEPT !.i = 1] ELSE NoData]
    /\ ch = [c \in {FanOutInput} \cup {Outputs(k) : k \in 0..(cfg.workers - 1)} |-> NewChan]
    /\ wg = 0
    /\ out = [p \in {Consumer(k) : k \in 0..(cfg.workers - 1)} |-> <<>>]
    /\ panicked = "none"
    /\ now = 0

\* line 255: go func() { ... }() (the data source)
FanOutGoSource ==
    /\ At(Main, "go_source")
    /\ pc' = [pc EXCEPT ![Main] = "fanOut", ![Source] = "loop"]
    /\ UNCHANGED <<cfg, loc, ch, wg, out, panicked, now>>

\* line 265, 296: outputs := fanOut(input, numWorkers) starts the dispatcher
\* (i := 0) and returns.
FanOutGoDispatcher ==
    /\ At(Main, "fanOut")
    /\ pc' = [pc EXCEPT ![Main] = "add", ![Dispatcher] = "range"]
    /\ UNCHANGED <<cfg, loc, ch, wg, out, panicked, now>>

\* line 269-270: for i, output := range outputs { wg.Add(1)
FanOutAdd ==
    /\ At(Main, "add")
    /\ IF loc[Main].i < cfg.workers
       THEN /\ wg' = WgAdd(wg, 1)
            /\ pc' = [pc EXCEPT ![Main] = "go"]
       ELSE /\ pc' = [pc EXCEPT ![Main] = "wait"]
            /\ wg' = wg
    /\ UNCHANGED <<cfg, loc, ch, out, panicked, now>>

\* line 271-278: go func(workerID int, ch <-chan int) { ... }(i+1, output)
FanOutGoConsumer ==
    /\ At(Main, "go")
    /\ pc' = [pc EXCEPT ![Main] = "add", ![Consumer(loc[Main].i)] = "range"]
    /\ loc' = [loc EXCEPT ![Main].i = @ + 1]
    /\ UNCHANGED <<cfg, ch, wg, out, panicked, now>>

\* line 281: wg.Wait()
FanOutWait ==
    /\ At(Main, "wait")
    /\ WaitReleased(wg)
    /\ pc' = [pc EXCEPT ![Main] = "done"]
    /\ UNCHANGED <<cfg, loc, ch, wg, out, panicked, now>>

\* Faulty variant: a dispatcher that takes the next value from input while it
\* still holds the last one.
FanOutSourceSendAhead ==
    /\ At(Source, "loop")
    /\ loc[Source].i <= cfg.values
    /\ pc[Dispatcher] \in {"range", "send"}
    /\ pc' = [pc EXCEPT ![Dispatcher] = "send"]
    /\ loc' = [loc EXCEPT ![Dispatcher].data = loc[Source].i,
                          ![Source].i = @ + 1]
    /\ UNCHANGED <<cfg, ch, wg, out, panicked, now>>
\* line 257 meeting line 304: the source's send on the unbuffered input is
\* the dispatcher's receive.
FanOutSourceSend ==
    /\ At(Source, "loop")
    /\ loc[Source].i <= cfg.values
    /\ IF ch[FanOutInput].closed
       THEN /\ panicked' = "send on closed channel"
            /\ UNCHANGED <<pc, loc>>
       ELSE /\ pc[Dispatcher] = "range"
            /\ pc' = [pc EXCEPT ![Dispatcher] = "send"]
            /\ loc' = [loc EXCEPT ![Dispatcher].data = loc[Source].i,
                                  ![Source].i = @ + 1]
            /\ panicked' = panicked
    /\ UNCHANGED <<cfg, ch, wg, out, now>>

\* line 260: close(input)
FanOutSourceClose ==
    /\ At(Source, "loop")
    /\ loc[Source].i > cfg.values
    /\ pc' = [pc EXCEPT ![Source] = "done"]
    /\ ch' = [ch EXCEPT ![FanOutInput] = Closed(@)]
    /\ panicked' = IF ch[FanOutInput].closed THEN "close of closed channel" ELSE panicked
    /\ UNCHANGED <<cfg, loc, wg, out, now>>

\* Faulty variant: the dispatcher goes on without the consumer having
\* received the value.
DispatchSendNoWait ==
    /\ At(Dispatcher, "send")
    /\ pc' = [pc EXCEPT ![Dispatcher] = "range"]
    /\ loc' = [loc EXCEPT ![Dispatcher] = [i |-> @.i + 1, data |-> 0]]
    /\ UNCHANGED <<cfg, ch, wg, out, panicked, now>>
\* line 306-307 meeting line 273: outputs[i%numWorkers] <- data is the receive
\* of that output's consumer; then i++.
DispatchSend ==
    /\ At(Dispatcher, "send")
    /\ LET k == Slot(loc[Dispatcher].i, cfg.workers) IN
       IF ch[Outputs(k)].closed
       THEN /\ panicked' = "send on closed channel"
            /\ UNCHANGED <<pc, loc, out>>
       ELSE /\ pc[Consumer(k)] = "range"
            /\ out' = [out EXCEPT ![Consumer(k)] = Append(@, loc[Dispatcher].data)]
            /\ pc' = [pc EXCEPT ![Dispatcher] = "range", ![Consumer(k)] = "work"]
            /\ loc' = [loc EXCEPT ![Dispatcher] = [i |-> @.i + 1, data |-> 0],
                                  ![Consumer(k)].data = loc[Dispatcher].data]
            /\ panicked' = panicked
    /\ UNCHANGED <<cfg, ch, wg, now>>

\* line 304: for data := range input, on the closed input: the loop ends and
\* the deferred function (297-301) starts closing the outputs.
DispatchRangeEnd ==
    /\ At(Dispatcher, "range")
    /\ ch[FanOutInput].closed
    /\ pc' = [pc EXCEPT ![Dispatcher] = "closing"]
    /\ loc' = [loc EXCEPT ![Dispatcher].i = 0]
    /\ UNCHANGED <<cfg, ch, wg, out, panicked, now>>

\* line 298-300: for _, output := range outputs { close(output) }
DispatchClose ==
    /\ At(Dispatcher, "closing")
    /\ IF loc[Dispatcher].i < cfg.workers
       THEN /\ ch' = [ch EXCEPT ![Outputs(loc[Dispatcher].i)] = Closed(@)]
            /\ panicked' = IF ch[Outputs(loc[Dispatcher].i)].closed
                           THEN "close of closed channel" ELSE panicked
            /\ loc' = [loc EXCEPT ![Dispatcher].i = @ + 1]
            /\ pc' = pc
       ELSE /\ pc' = [pc EXCEPT ![Dispatcher] = "done"]
            /\ UNCHANGED <<ch, loc, panicked>>
    /\ UNCHANGED <<cfg, wg, out, now>>

\* line 274-276: result := data * data; Printf; Sleep(200ms)
ConsumerWork(k) ==
    /\ At(Consumer(k), "work")
    /\ pc' = [pc EXCEPT ![Consumer(k)] = "range"]
    /\ loc' = [loc EXCEPT ![Consumer(k)].data = 0]
    /\ UNCHANGED <<cfg, ch, wg, out, panicked, now>>

\* line 273: for data := range ch, on the closed output: the loop ends.
ConsumerRangeEnd(k) ==
    /\ At(Consumer(k), "range")
    /\ ch[Outputs(k)].closed
    /\ pc' = [pc EXCEPT ![Consumer(k)] = "exit"]
    /\ UNCHANGED <<cfg, loc, ch, wg, out, panicked, now>>

\* line 272: defer wg.Done()
ConsumerDone(k) ==
    /\ At(Consumer(k), "exit")
    /\ wg' = WgAdd(wg, -1)
    /\ panicked' = IF wg' < 0 THEN "sync: negative WaitGroup counter" ELSE panicked
    /\ pc' = [pc EXCEPT ![Consumer(k)] = "done"]
    /\ UNCHANGED <<cfg, loc, ch, out, now>>

NextFanOut ==
    \/ FanOutGoSource
    \/ FanOutGoDispatcher
    \/ FanOutAdd
    \/ FanOutGoConsumer
    \/ FanOutWait
    \/ FanOutSourceSend
    \/ FanOutSourceClose
    \/ DispatchSend
    \/ DispatchRangeEnd
    \/ DispatchClose
    \/ \E k \in 0..(cfg.workers - 1) : ConsumerWork(k)
    \/ \E k \in 0..(cfg.workers - 1) : ConsumerRangeEnd(k)
    \/ \E k \in 0..(cfg.workers - 1) : ConsumerDone(k)

SpecFanOut == InitFanOut /\ [][NextFanOut]_vars

\* ---------------------------------------------------------- fanOut: claims
IsPrefix(s, t) == Len(s) <= Len(t) /\ \A j \in 1..Len(s) : s[j] = t[j]

\* The input values whose 0-based index is congruent to k modulo K, in input
\* order (the value at index i is i + 1).
RECURSIVE Residue(_, _, _)
Residue(k, K, n) ==
    IF n = 0 THEN <<>>
    ELSE IF (n - 1) % K = k THEN Append(Residue(k, K, n - 1), n)
         ELSE Residue(k, K, n - 1)

RECURSIVE TotalReceived(_)
TotalReceived(k) == IF k < 0 THEN 0 ELSE Len(out[Consumer(k)]) + TotalReceived(k - 1)

\* C3: the value with index i goes to output i mod K and to no other: what
\* output k has received is always a prefix of the values at indices
\* congruent to k modulo K, in input order, and is all of them once the
\* consumers have finished, when the outputs together have received N values.
C3_RoundRobin ==
    /\ \A k \in 0..(cfg.workers - 1) :
          IsPrefix(out[Consumer(k)], Residue(k, cfg.workers, cfg.values))
    /\ pc[Main] = "done" =>
          /\ \A k \in 0..(cfg.workers - 1) :
                out[Consumer(k)] = Residue(k, cfg.workers, cfg.values)
          /\ TotalReceived(cfg.workers - 1) = cfg.values

C3_Witness ==
    /\ pc[Main] = "done"
    /\ cfg.workers = fanOutWorkers
    /\ cfg.values = MaxValues
    /\ Len(out[Consumer(0)]) >= 2

\* C7: every output is closed at most once, and exactly once when the
\* dispatcher is done; an output is closed only after the input has been seen
\* closed and every value read from it has been handed to its consumer; the
\* dispatcher never sends on a closed output.
C7_CloseAfterFlush ==
    /\ \A k \in 0..(cfg.workers - 1) :
          /\ ch[Outputs(k)].closes <= 1
          /\ pc[Dispatcher] = "done" => ch[Outputs(k)].closes = 1
          /\ ch[Outputs(k)].closes > 0 =>
                /\ ch[FanOutInput].closed
                /\ pc[Dispatcher] \in {"closing", "done"}
                /\ TotalReceived(cfg.workers - 1) = cfg.values
    /\ panicked = "none"

C7_Witness ==
    /\ cfg.workers = fanOutWorkers
    /\ cfg.values = MaxValues
    /\ ch[Outputs(0)].closed
    /\ ~ch[Outputs(cfg.workers - 1)].closed
    /\ Len(out[Consumer(cfg.workers - 1)]) >= 1

\* ============================================================ pipeline
\* channels.go:315-374: generateNumbers(1, 10) -> square -> filter(n > 20),
\* three stage goroutines over unbuffered channels, read by main.
Generator == <<"generateNumbers", 0>>
Squarer == <<"square", 0>>
Filter == <<"filter", 0>>
PipeProcs == {Main, Generator, Squarer, Filter}
PipeChans == {"numbers", "squared", "filtered"}

\* Faulty variant: num + num.
Doubled(n) == n + n
\* line 351: result := num * num
SquareOf(n) == n * n

\* line 323: func(n int) bool { return n > 20 }
predicate(n) == n > pipeThreshold

\* The locals: the loop counter i of generateNumbers, the num of a stage.
PipeLocals == [i |-> 0, num |-> 0]

InitPipeline ==
    /\ cfg = [prog |-> "pipeline", start |-> pipeStart, end |-> pipeEnd]
    /\ pc = [p \in PipeProcs |-> IF p = Main THEN "generateNumbers" ELSE "unstarted"]
    /\ loc = [p \in PipeProcs |-> PipeLocals]
    /\ ch = [c \in PipeChans |-> NewChan]
    /\ wg = 0
    /\ out = [p \in {Squarer, Filter, Main} |-> <<>>]
    /\ panicked = "none"
    /\ now = 0

\* line 319, 334-342: numbers := generateNumbers(1, 10)
PipeGoGenerate ==
    /\ At(Main, "generateNumbers")
    /\ pc' = [pc EXCEPT ![Main] = "square", ![Generator] = "loop"]
    /\ loc' = [loc EXCEPT ![Generator].i = cfg.start]
    /\ UNCHANGED <<cfg, ch, wg, out, panicked, now>>

\* line 322, 347-356: squared := square(numbers)
PipeGoSquare ==
    /\ At(Main, "square")
    /\ pc' = [pc EXCEPT ![Main] = "filter", ![Squarer] = "range"]
    /\ UNCHANGED <<cfg, loc, ch, wg, out, panicked, now>>

\* line 323, 361-373: filtered := filter(squared, ...)
PipeGoFilter ==
    /\ At(Main, "filter")
    /\ pc' = [pc EXCEPT ![Main] = "range", ![Filter] = "range"]
    /\ UNCHANGED <<cfg, loc, ch, wg, out, panicked, now>>

\* line 337-338 meeting line 350: ch <- i is square's receive.
GenerateSend ==
    /\ At(Generator, "loop")
    /\ loc[Generator].i <= cfg.end
    /\ IF ch["numbers"].closed
       THEN /\ panicked' = "send on closed channel"
            /\ UNCHANGED <<pc, loc, out>>
       ELSE /\ pc[Squarer] = "range"
            /\ pc' = [pc EXCEPT ![Squarer] = "compute", ![Generator] = "sleep"]
            /\ loc' = [loc EXCEPT ![Squarer].num = loc[Generator].i]
            /\ out' = [out EXCEPT ![Squarer] = Append(@, loc[Generator].i)]
            /\ panicked' = panicked
    /\ UNCHANGED <<cfg, ch, wg, now>>

\* line 339 and the i++ of line 337: time.Sleep(100 * time.Millisecond)
GenerateSleep ==
    /\ At(Generator, "sleep")
    /\ pc' = [pc EXCEPT ![Generator] = "loop"]
    /\ loc' = [loc EXCEPT ![Generator].i = @ + 1]
    /\ UNCHANGED <<cfg, ch, wg, out, panicked, now>>

\* line 336: defer close(ch), once the loop is over
GenerateClose ==
    /\ At(Generator, "loop")
    /\ loc[Generator].i > cfg.end
    /\ pc' = [pc EXCEPT ![Generator] = "done"]
    /\ ch' = [ch EXCEPT !["numbers"] = Closed(@)]
    /\ panicked' = IF ch["numbers"].closed THEN "close of closed channel" ELSE panicked
    /\ UNCHANGED <<cfg, loc, wg, out, now>>

\* line 351-352: result := num * num; Printf
SquareCompute ==
    /\ At(Squarer, "compute")
    /\ pc' = [pc EXCEPT ![Squarer] = "send"]
    /\ loc' = [loc EXCEPT ![Squarer].num = SquareOf(@)]
    /\ UNCHANGED <<cfg, ch, wg, out, panicked, now>>

\* line 353 meeting line 364: output <- result is filter's receive.
SquareSend ==
    /\ At(Squarer, "send")
    /\ IF ch["squared"].closed
       THEN /\ panicked' = "send on closed channel"
            /\ UNCHANGED <<pc, loc, out>>
       ELSE /\ pc[Filter] = "range"
            /\ pc' = [pc EXCEPT ![Squarer] = "range", ![Filter] = "test"]
            /\ loc' = [loc EXCEPT ![Filter].num = loc[Squarer].num,
                                  ![Squarer].num = 0]
            /\ out' = [out EXCEPT ![Filter] = Append(@, loc[Squarer].num)]
            /\ panicked' = panicked
    /\ UNCHANGED <<cfg, ch, wg, now>>

\* line 350: for num := range input, on the closed input: the loop ends.
SquareRangeEnd ==
    /\ At(Squarer, "range")
    /\ ch["numbers"].closed
    /\ pc' = [pc EXCEPT ![Squarer] = "exit"]
    /\ UNCHANGED <<cfg, loc, ch, wg, out, panicked, now>>

\* line 349: defer close(output)
SquareClose ==
    /\ At(Squarer, "exit")
    /\ pc' = [pc EXCEPT ![Squarer] = "done"]
    /\ ch' = [ch EXCEPT !["squared"] = Closed(@)]
    /\ panicked' = IF ch["squared"].closed THEN "close of closed channel" ELSE panicked
    /\ UNCHANGED <<cfg, loc, wg, out, now>>

\* Faulty variant: the filter returns at the first value it rejects.
FilterTestReturnOnReject ==
    /\ At(Filter, "test")
    /\ pc' = [pc EXCEPT ![Filter] = IF predicate(loc[Filter].num) THEN "send" ELSE "exit"]
    /\ loc' = [loc EXCEPT ![Filter].num = IF predicate(@) THEN @ ELSE 0]
    /\ UNCHANGED <<cfg, ch, wg, out, panicked, now>>
\* line 365-370: if predicate(num) { ... } else { rejected, next value }
FilterTest ==
    /\ At(Filter, "test")
    /\ pc' = [pc EXCEPT ![Filter] = IF predicate(loc[Filter].num) THEN "send" ELSE "range"]
    /\ loc' = [loc EXCEPT ![Filter].num = IF predicate(@) THEN @ ELSE 0]
    /\ UNCHANGED <<cfg, ch, wg, out, panicked, now>>

\* line 367 meeting line 327: output <- num is main's receive.
FilterSend ==
    /\ At(Filter, "send")
    /\ IF ch["filtered"].closed
       THEN /\ panicked' = "send on closed channel"
            /\ UNCHANGED <<pc, loc, out>>
       ELSE /\ pc[Main] = "range"
            /\ pc' = [pc EXCEPT ![Filter] = "range"]
            /\ loc' = [loc EXCEPT ![Filter].num = 0]
            /\ out' = [out EXCEPT ![Main] = Append(@, loc[Filter].num)]
            /\ panicked' = panicked
    /\ UNCHANGED <<cfg, ch, wg, now>>

\* line 364: for num := range input, on the closed input: the loop ends.
FilterRangeEnd ==
    /\ At(Filter, "range")
    /\ ch["squared"].closed
    /\ pc' = [pc EXCEPT ![Filter] = "exit"]
    /\ UNCHANGED <<cfg, loc, ch, wg, out, panicked, now>>

\* line 363: defer close(output)
FilterClose ==
    /\ At(Filter, "exit")
    /\ pc' = [pc EXCEPT ![Filter] = "done"]
    /\ ch' = [ch EXCEPT !["filtered"] = Closed(@)]
    /\ panicked' = IF ch["filtered"].closed THEN "close of closed channel" ELSE panicked
    /\ UNCHANGED <<cfg, loc, wg, out, now>>

\* line 327-329: for result := range filtered, on the closed channel
PipeRangeEnd ==
    /\ At(Main, "range")
    /\ ch["filtered"].closed
    /\ pc' = [pc EXCEPT ![Main] = "done"]
    /\ UNCHANGED <<cfg, loc, ch, wg, out, panicked, now>>

NextPipeline ==
    \/ PipeGoGenerate
    \/ PipeGoSquare
    \/ PipeGoFilter
    \/ GenerateSend
    \/ GenerateSleep
    \/ GenerateClose
    \/ SquareCompute
    \/ SquareSend
    \/ SquareRangeEnd
    \/ SquareClose
    \/ FilterTest
    \/ FilterSend
    \/ FilterRangeEnd
    \/ FilterClose
    \/ PipeRangeEnd

SpecPipeline == InitPipeline /\ [][NextPipeline]_vars

\* The Go scheduler runs every runnable goroutine eventually.
FairPipeline == SpecPipeline /\ WF_vars(NextPipeline)

\* -------------------------------------------------------- pipeline: claims
\* C4: the final consumer receives 25, 36, 49, 64, 81, 100 in that order and
\* nothing else: what it has received is always a prefix of that sequence;
\* its loop eventually ends, with the final channel closed and the whole
\* sequence received.
C4_PipelineResult ==
    /\ [](IsPrefix(out[Main], <<25, 36, 49, 64, 81, 100>>))
    /\ [](pc[Main] = "done" =>
             out[Main] = <<25, 36, 49, 64, 81, 100>> /\ ch["filtered"].closed)
    /\ <>(pc[Main] = "done")

C4_Witness ==
    /\ pc[Main] = "done"
    /\ Len(out[Main]) = 6
    /\ Len(out[Filter]) = 10

\* The values start..end in order.
RECURSIVE Range(_, _)
Range(a, b) == IF a > b THEN <<>> ELSE <<a>> \o Range(a + 1, b)

Squares(s) == [j \in 1..Len(s) |-> s[j] * s[j]]

\* C8: every stage closes its output at most once, and exactly once when it
\* is done; an output is closed only after the stage has seen its input
\* closed and drained and has delivered downstream every value it kept; no
\* stage sends on a closed channel.
C8_StageCloseAfterDrain ==
    /\ \A c \in PipeChans : ch[c].closes <= 1
    /\ pc[Generator] = "done" => ch["numbers"].closes = 1
    /\ pc[Squarer] = "done" => ch["squared"].closes = 1
    /\ pc[Filter] = "done" => ch["filtered"].closes = 1
    /\ ch["numbers"].closes > 0 => out[Squarer] = Range(cfg.start, cfg.end)
    /\ ch["squared"].closes > 0 =>
          /\ ch["numbers"].closed
          /\ out[Squarer] = Range(cfg.start, cfg.end)
          /\ out[Filter] = Squares(out[Squarer])
    /\ ch["filtered"].closes > 0 =>
          /\ ch["squared"].closed
          /\ out[Filter] = Squares(Range(cfg.start, cfg.end))
          /\ out[Main] = SelectSeq(out[Filter], predicate)
    /\ panicked = "none"

\* The filter is closing with the last value it kept delivered.
C8_Witness ==
    /\ ch["filtered"].closes = 1
    /\ ch["squared"].closes = 1
    /\ ch["numbers"].closes = 1
    /\ pc[Main] = "range"
    /\ Len(out[Main]) >= 1

\* ======================================================== timeoutExample
\* goroutines.go:232-253: a goroutine sleeps and then sends on the unbuffered
\* taskDone; main selects between the receive and time.After(timeout).  The
\* task takes 3 s and the timeout is 2 s in the source; cfg.work and
\* cfg.timeout are the two durations of a run, in seconds.
\*
\* Time: now advances by Tick, one second at a time, and only when no step is
\* due: a sleeper whose time has come wakes, a ready case of the select is
\* taken and a send meets its receive before the clock moves on.
Job == <<"task", 0>>
TimeoutProcs == {Main, Job}

\* The locals: the instant a time.Sleep or a time.After ends.
TimeLocals == [until |-> 0]

InitTimeout ==
    /\ cfg \in [prog : {"timeout"}, work : 0..MaxDelay, timeout : 0..MaxDelay]
    /\ pc = [p \in TimeoutProcs |-> IF p = Main THEN "go" ELSE "unstarted"]
    /\ loc = [p \in TimeoutProcs |-> TimeLocals]
    /\ ch = [c \in {"taskDone"} |-> NewChan]
    /\ wg = 0
    /\ out = [p \in {Main} |-> <<>>]
    /\ panicked = "none"
    /\ now = 0

\* Faulty variant: a timer that has always run out.
ExpiredAtOnce(t) == TRUE
\* A timer or sleep set to end at instant t has run out.
Expired(t) == now >= t

\* line 240-242: go func() { time.Sleep(3 * time.Second) ...
TimeoutGo ==
    /\ At(Main, "go")
    /\ pc' = [pc EXCEPT ![Main] = "select", ![Job] = "sleep"]
    /\ loc' = [loc EXCEPT ![Job].until = now + cfg.work]
    /\ UNCHANGED <<cfg, ch, wg, out, panicked, now>>

\* line 247, 250: entering the select evaluates time.After(timeout)
TimeoutSelect ==
    /\ At(Main, "select")
    /\ pc' = [pc EXCEPT ![Main] = "waiting"]
    /\ loc' = [loc EXCEPT ![Main].until = now + cfg.timeout]
    /\ UNCHANGED <<cfg, ch, wg, out, panicked, now>>

\* line 242: time.Sleep returns
JobWake ==
    /\ At(Job, "sleep")
    /\ Expired(loc[Job].until)
    /\ pc' = [pc EXCEPT ![Job] = "send"]
    /\ UNCHANGED <<cfg, loc, ch, wg, out, panicked, now>>

\* Faulty variant: a send that completes with no receiver.
JobSendUnreceived ==
    /\ At(Job, "send")
    /\ pc' = [pc EXCEPT ![Job] = "done"]
    /\ UNCHANGED <<cfg, loc, ch, wg, out, panicked, now>>
\* line 243 meeting line 248-249: taskDone <- true is taken by the select's
\* case <-taskDone
JobSend ==
    /\ At(Job, "send")
    /\ IF ch["taskDone"].closed
       THEN /\ panicked' = "send on closed channel"
            /\ UNCHANGED <<pc, out>>
       ELSE /\ pc[Main] = "waiting"
            /\ pc' = [pc EXCEPT ![Job] = "done", ![Main] = "done"]
            /\ out' = [out EXCEPT ![Main] = Append(@, "completed")]
            /\ panicked' = panicked
    /\ UNCHANGED <<cfg, loc, ch, wg, now>>

\* line 250-251: case <-time.After(timeout)
TimeoutFires ==
    /\ At(Main, "waiting")
    /\ Expired(loc[Main].until)
    /\ pc' = [pc EXCEPT ![Main] = "done"]
    /\ out' = [out EXCEPT ![Main] = Append(@, "timed out")]
    /\ UNCHANGED <<cfg, loc, ch, wg, panicked, now>>

\* Some step of the program can be taken at the present instant.
TimeoutDue ==
    \/ pc[Main] \in {"go", "select"}
    \/ At(Job, "sleep") /\ Expired(loc[Job].until)
    \/ At(Job, "send") /\ pc[Main] = "waiting"
    \/ pc[Main] = "waiting" /\ Expired(loc[Main].until)

\* A second passes while a sleep or a timer is running and nothing is due.
Tick ==
    /\ At(Job, "sleep") \/ (Job \in DOMAIN pc /\ At(Main, "waiting"))
    /\ ~TimeoutDue
    /\ now' = now + 1
    /\ UNCHANGED <<cfg, pc, loc, ch, wg, out, panicked>>

\* ---------------------------------------------------------- selectExample
\* channels.go:52-81: two goroutines sleep (1 s and 2 s in the source;
\* cfg.d1 and cfg.d2 here) and send on the unbuffered c1 and c2; main runs
\* the select twice, each time against a new time.After(3 s), and returns on
\* the first timeout.
Sender1 == <<"sender", 1>>
Sender2 == <<"sender", 2>>
SelectProcs == {Main, Sender1, Sender2}
SelectChan(p) == IF p = Sender1 THEN "c1" ELSE "c2"

InitSelect ==
    /\ cfg \in [prog : {"select"}, d1 : 0..MaxDelay, d2 : 0..MaxDelay]
    /\ pc = [p \in SelectProcs |-> IF p = Main THEN "go1" ELSE "unstarted"]
    /\ loc = [p \in SelectProcs |-> [until |-> 0, i |-> 0]]
    /\ ch = [c \in {"c1", "c2"} |-> NewChan]
    /\ wg = 0
    /\ out = [p \in {Main} |-> <<>>]
    /\ panicked = "none"
    /\ now = 0

\* line 59-60: go func() { time.Sleep(1 * time.Second) ...
SelectGo1 ==
    /\ At(Main, "go1")
    /\ pc' = [pc EXCEPT ![Main] = "go2", ![Sender1] = "sleep"]
    /\ loc' = [loc EXCEPT ![Sender1].until = now + cfg.d1]
    /\ UNCHANGED <<cfg, ch, wg, out, panicked, now>>

\* line 64-65: go func() { time.Sleep(2 * time.Second) ...
SelectGo2 ==
    /\ At(Main, "go2")
    /\ pc' = [pc EXCEPT ![Main] = "loop", ![Sender2] = "sleep"]
    /\ loc' = [loc EXCEPT ![Sender2].until = now + cfg.d2]
    /\ UNCHANGED <<cfg, ch, wg, out, panicked, now>>

\* line 70-71, 76: for i := 0; i < 2; i++ { select { ... time.After(3 s)
SelectEnter ==
    /\ At(Main, "loop")
    /\ IF loc[Main].i < 2
       THEN /\ pc' = [pc EXCEPT ![Main] = "selecting"]
            /\ loc' = [loc EXCEPT ![Main].until = now + selectSeconds]
       ELSE /\ pc' = [pc EXCEPT ![Main] = "done"]
            /\ loc' = loc
    /\ UNCHANGED <<cfg, ch, wg, out, panicked, now>>

\* line 60, 65: time.Sleep returns
SenderWake(p) ==
    /\ At(p, "sleep")
    /\ Expired(loc[p].until)
    /\ pc' = [pc EXCEPT ![p] = "send"]
    /\ UNCHANGED <<cfg, loc, ch, wg, out, panicked, now>>

\* line 61 (66) meeting line 72 (74): c1 <- "来自 c1" is taken by the select's
\* case msg1 := <-c1; then i++
SenderSends(p) ==
    /\ At(p, "send")
    /\ IF ch[SelectChan(p)].closed
       THEN /\ panicked' = "send on closed channel"
            /\ UNCHANGED <<pc, loc, out>>
       ELSE /\ pc[Main] = "selecting"
            /\ pc' = [pc EXCEPT ![p] = "done", ![Main] = "loop"]
            /\ loc' = [loc EXCEPT ![Main].i = @ + 1]
            /\ out' = [out EXCEPT ![Main] = Append(@, SelectChan(p))]
            /\ panicked' = panicked
    /\ UNCHANGED <<cfg, ch, wg, now>>

\* line 76-78: case <-time.After(3 * time.Second): Println("超时"); return
SelectTimesOut ==
    /\ At(Main, "selecting")
    /\ Expired(loc[Main].until)
    /\ pc' = [pc EXCEPT ![Main] = "done"]
    /\ out' = [out EXCEPT ![Main] = Append(@, "timed out")]
    /\ UNCHANGED <<cfg, loc, ch, wg, panicked, now>>

\* Some step of the program can be taken at the present instant.
SelectDue ==
    \/ pc[Main] \in {"go1", "go2", "loop"}
    \/ \E p \in {Sender1, Sender2} :
          \/ At(p, "sleep") /\ Expired(loc[p].until)
          \/ At(p, "send") /\ pc[Main] = "selecting"
    \/ pc[Main] = "selecting" /\ Expired(loc[Main].until)

\* A second passes while a sleep or a timer is running and nothing is due.
SelectTick ==
    /\ At(Sender1, "sleep") \/ At(Sender2, "sleep") \/ At(Main, "selecting")
    /\ ~SelectDue
    /\ now' = now + 1
    /\ UNCHANGED <<cfg, pc, loc, ch, wg, out, panicked>>

NextTimeout ==
    \/ TimeoutGo
    \/ TimeoutSelect
    \/ JobWake
    \/ JobSend
    \/ TimeoutFires
    \/ Tick
    \/ SelectGo1
    \/ SelectGo2
    \/ SelectEnter
    \/ \E p \in {Sender1, Sender2} : SenderWake(p)
    \/ \E p \in {Sender1, Sender2} : SenderSends(p)
    \/ SelectTimesOut
    \/ SelectTick

\* Both timed examples: a run is one of timeoutExample or of selectExample.
SpecTimeout == (InitTimeout \/ InitSelect) /\ [][NextTimeout]_vars

\* Runnable goroutines run and time passes.
FairTimeout == SpecTimeout /\ WF_vars(NextTimeout)

\* --------------------------------------------------------- timeout: claims
\* C9: the select yields one outcome and only one: "completed" when the value
\* is sent strictly before the deadline, "timed out" when it would only be
\* sent after it (the source's run, 3 s of work against 2 s, times out).
\* In selectExample each of the (at most two) selects yields one outcome; the
\* first one is a receive when a sender is ready strictly before its 3 s
\* deadline and the timeout when both are ready only after it.
C9_TimeoutBoundary ==
    /\ <>(pc[Main] = "done")
    /\ [](cfg.prog = "timeout" => Len(out[Main]) <= 1)
    /\ []((cfg.prog = "timeout" /\ pc[Main] = "done") =>
             /\ Len(out[Main]) = 1
             /\ cfg.work < cfg.timeout => out[Main] = <<"completed">>
             /\ cfg.work > cfg.timeout => out[Main] = <<"timed out">>
             /\ (cfg.work = taskSeconds /\ cfg.timeout = timeoutSeconds) =>
                   out[Main] = <<"timed out">>)
    /\ [](cfg.prog = "select" => Len(out[Main]) <= IF pc[Main] = "selecting" THEN 1 ELSE 2)
    /\ []((cfg.prog = "select" /\ pc[Main] = "done") =>
             /\ Len(out[Main]) \in {1, 2}
             /\ (cfg.d1 < selectSeconds \/ cfg.d2 < selectSeconds) => out[Main][1] # "timed out"
             /\ (cfg.d1 > selectSeconds /\ cfg.d2 > selectSeconds) => out[Main] = <<"timed out">>
             /\ (cfg.d1 = 1 /\ cfg.d2 = 2) => out[Main] = <<"c1", "c2">>)

\* The run of the source has timed out at 2 s; a run with the durations
\* swapped has completed at 2 s.
C9_Witness ==
    /\ pc[Main] = "done"
    /\ cfg.prog = "timeout"
    /\ cfg.work = taskSeconds
    /\ cfg.timeout = timeoutSeconds
    /\ out[Main] = <<"timed out">>
    /\ now = timeoutSeconds

\* The channel goroutine p of a timed example sends on.
SendsOn(p) == IF cfg.prog = "timeout" THEN "taskDone" ELSE SelectChan(p)

Messenger == <<"messenger", 0>>

\* line 19-21: the three messages of basicChannelExample
Messages == <<"Hello", "World", "from Go">>

\* channels.go:98, for i := 1; i <= 5; i++
sendCount == 5

\* channels.go:36, make(chan int, 3)
bufferCap == 3

ChanProcs(c) ==
    IF c.prog = "basic" THEN {Main, Messenger}
    ELSE IF c.prog = "uni" THEN {Main, Sender}
    ELSE {Main}

\* The locals: a loop counter i, the received msg or num of the receiving
\* loop, and the length printed by bufferedChannelExample.
ChanLocals == [i |-> 1, msg |-> "", num |-> 0, len |-> 0]

InitChannels ==
    /\ \/ cfg \in [prog : {"basic"}]
       \/ cfg \in [prog : {"uni"}, count : 0..sendCount]
       \/ \E c \in 0..bufferCap : cfg \in [prog : {"buffered"}, cap : {c}, sends : 0..(c + 1)]
    /\ pc = [p \in ChanProcs(cfg) |->
                IF p # Main THEN "unstarted" ELSE IF cfg.prog = "buffered" THEN "send" ELSE "go"]
    /\ loc = [p \in ChanProcs(cfg) |-> ChanLocals]
    /\ ch = [c \in {IF cfg.prog = "basic" THEN "messages" ELSE "ch"} |-> NewChan]
    /\ wg = 0
    /\ out = [p \in {Main} |-> <<>>]
    /\ panicked = "none"
    /\ now = 0

\* Faulty variant: a buffer that takes one value more than its capacity.
HasRoomOffByOne(c, cap) == Len(c.buf) <= cap
\* A send on a channel of capacity cap completes without a receiver while
\* the buffer holds fewer than cap values.
HasRoom(c, cap) == Len(c.buf) < cap

\* --------------------------------------------------- basicChannelExample
\* line 18: go func() { ... }()
BasicGo ==
    /\ At(Main, "go")
    /\ cfg.prog = "basic"
    /\ pc' = [pc EXCEPT ![Main] = "range", ![Messenger] = "send"]
    /\ UNCHANGED <<cfg, loc, ch, wg, out, panicked, now>>

\* line 19-21 meeting line 26: messages <- "Hello" on the unbuffered channel
\* is main's receive.
MessengerSend ==
    /\ At(Messenger, "send")
    /\ loc[Messenger].i <= Len(Messages)
    /\ IF ch["messages"].closed
       THEN /\ panicked' = "send on closed channel"
            /\ UNCHANGED <<pc, loc>>
       ELSE /\ pc[Main] = "range"
            /\ pc' = [pc EXCEPT ![Main] = "print"]
            /\ loc' = [loc EXCEPT ![Main].msg = Messages[loc[Messenger].i],
                                  ![Messenger].i = @ + 1]
            /\ panicked' = panicked
    /\ UNCHANGED <<cfg, ch, wg, out, now>>

\* line 22: close(messages)
MessengerClose ==
    /\ At(Messenger, "send")
    /\ loc[Messenger].i > Len(Messages)
    /\ pc' = [pc EXCEPT ![Messenger] = "done"]
    /\ ch' = [ch EXCEPT !["messages"] = Closed(@)]
    /\ panicked' = IF ch["messages"].closed THEN "close of closed channel" ELSE panicked
    /\ UNCHANGED <<cfg, loc, wg, out, now>>

\* line 27: fmt.Println("收到消息:", msg)
BasicPrint ==
    /\ At(Main, "print")
    /\ cfg.prog = "basic"
    /\ out' = [out EXCEPT ![Main] = Append(@, loc[Main].msg)]
    /\ pc' = [pc EXCEPT ![Main] = "range"]
    /\ loc' = [loc EXCEPT ![Main].msg = ""]
    /\ UNCHANGED <<cfg, ch, wg, panicked, now>>

\* line 26: for msg := range messages, on the closed channel: the loop ends.
BasicRangeEnd ==
    /\ At(Main, "range")
    /\ cfg.prog = "basic"
    /\ ch["messages"].closed
    /\ pc' = [pc EXCEPT ![Main] = "done"]
    /\ UNCHANGED <<cfg, loc, ch, wg, out, panicked, now>>

\* ------------------------------------------- unidirectionalChannelExample
\* line 91: go sender(ch); line 93: receiver(ch)
UniGo ==
    /\ At(Main, "go")
    /\ cfg.prog = "uni"
    /\ pc' = [pc EXCEPT ![Main] = "range", ![Sender] = "loop"]
    /\ UNCHANGED <<cfg, loc, ch, wg, out, panicked, now>>

\* line 98-100 meeting line 108: ch <- i on the unbuffered channel is the
\* receiver's receive.
UniSend ==
    /\ At(Sender, "loop")
    /\ cfg.prog = "uni"
    /\ loc[Sender].i <= cfg.count
    /\ IF ch["ch"].closed
       THEN /\ panicked' = "send on closed channel"
            /\ UNCHANGED <<pc, loc>>
       ELSE /\ pc[Main] = "range"
            /\ pc' = [pc EXCEPT ![Main] = "print", ![Sender] = "sleep"]
            /\ loc' = [loc EXCEPT ![Main].num = loc[Sender].i]
            /\ panicked' = panicked
    /\ UNCHANGED <<cfg, ch, wg, out, now>>

\* line 101 and the i++ of line 98: time.Sleep(500 * time.Millisecond)
UniSleep ==
    /\ At(Sender, "sleep")
    /\ cfg.prog = "uni"
    /\ pc' = [pc EXCEPT ![Sender] = "loop"]
    /\ loc' = [loc EXCEPT ![Sender].i = @ + 1]
    /\ UNCHANGED <<cfg, ch, wg, out, panicked, now>>

\* line 103: close(ch)
UniClose ==
    /\ At(Sender, "loop")
    /\ cfg.prog = "uni"
    /\ loc[Sender].i > cfg.count
    /\ pc' = [pc EXCEPT ![Sender] = "done"]
    /\ ch' = [ch EXCEPT !["ch"] = Closed(@)]
    /\ panicked' = IF ch["ch"].closed THEN "close of closed channel" ELSE panicked
    /\ UNCHANGED <<cfg, loc, wg, out, now>>

\* line 109: fmt.Printf("接收: %d\n", num)
UniPrint ==
    /\ At(Main, "print")
    /\ cfg.prog = "uni"
    /\ out' = [out EXCEPT ![Main] = Append(@, loc[Main].num)]
    /\ pc' = [pc EXCEPT ![Main] = "range"]
    /\ loc' = [loc EXCEPT ![Main].num = 0]
    /\ UNCHANGED <<cfg, ch, wg, panicked, now>>

\* line 108: for num := range ch, on the closed channel: the loop ends.
UniRangeEnd ==
    /\ At(Main, "range")
    /\ cfg.prog = "uni"
    /\ ch["ch"].closed
    /\ pc' = [pc EXCEPT ![Main] = "done"]
    /\ UNCHANGED <<cfg, loc, ch, wg, out, panicked, now>>

\* ------------------------------------------------- bufferedChannelExample
\* line 39-41: ch <- 1; ch <- 2; ch <- 3.  No other goroutine exists, so a
\* send completes only into the buffer.
BufSend ==
    /\ At(Main, "send")
    /\ loc[Main].i <= cfg.sends
    /\ HasRoom(ch["ch"], cfg.cap)
    /\ ch' = [ch EXCEPT !["ch"] = Enqueue(@, loc[Main].i)]
    /\ loc' = [loc EXCEPT ![Main].i = @ + 1]
    /\ UNCHANGED <<cfg, pc, wg, out, panicked, now>>

\* line 43: fmt.Printf("Channel长度: %d, 容量: %d\n", len(ch), cap(ch))
BufLen ==
    /\ At(Main, "send")
    /\ loc[Main].i > cfg.sends
    /\ pc' = [pc EXCEPT ![Main] = "recv"]
    /\ loc' = [loc EXCEPT ![Main].len = Len(ch["ch"].buf), ![Main].i = 1]
    /\ UNCHANGED <<cfg, ch, wg, out, panicked, now>>

\* Faulty variant: a receive that takes the newest buffered value.
BufRecvNewest ==
    /\ At(Main, "recv")
    /\ loc[Main].i <= cfg.sends
    /\ Len(ch["ch"].buf) > 0
    /\ out' = [out EXCEPT ![Main] = Append(@, ch["ch"].buf[Len(ch["ch"].buf)])]
    /\ ch' = [ch EXCEPT !["ch"].buf = SubSeq(@, 1, Len(@) - 1)]
    /\ loc' = [loc EXCEPT ![Main].i = @ + 1]
    /\ UNCHANGED <<cfg, pc, wg, panicked, now>>
\* line 46-48: fmt.Println("接收:", <-ch), three times
BufRecv ==
    /\ At(Main, "recv")
    /\ loc[Main].i <= cfg.sends
    /\ Len(ch["ch"].buf) > 0
    /\ out' = [out EXCEPT ![Main] = Append(@, Head(ch["ch"].buf))]
    /\ ch' = [ch EXCEPT !["ch"] = Dequeue(@)]
    /\ loc' = [loc EXCEPT ![Main].i = @ + 1]
    /\ UNCHANGED <<cfg, pc, wg, panicked, now>>

\* line 49: the function returns
BufDone ==
    /\ At(Main, "recv")
    /\ loc[Main].i > cfg.sends
    /\ pc' = [pc EXCEPT ![Main] = "done"]
    /\ UNCHANGED <<cfg, loc, ch, wg, out, panicked, now>>

NextChannels ==
    \/ BasicGo
    \/ MessengerSend
    \/ MessengerClose
    \/ BasicPrint
    \/ BasicRangeEnd
    \/ UniGo
    \/ UniSend
    \/ UniSleep
    \/ UniClose
    \/ UniPrint
    \/ UniRangeEnd
    \/ BufSend
    \/ BufLen
    \/ BufRecv
    \/ BufDone

SpecChannels == InitChannels /\ [][NextChannels]_vars

\* ----------------------------------------------------- plain channels: claims
\* The integers 1..n in order.
UpTo(n) == [j \in 1..n |-> j]

\* The values the sending side has handed over so far, in the order sent.
SentSoFar ==
    IF cfg.prog = "basic" THEN SubSeq(Messages, 1, loc[Messenger].i - 1)
    ELSE IF cfg.prog = "uni"
         THEN UpTo(IF pc[Sender] = "sleep" THEN loc[Sender].i ELSE loc[Sender].i - 1)
    ELSE UpTo(IF pc[Main] = "send" THEN loc[Main].i - 1 ELSE cfg.sends)

\* The values the receiving side has taken so far, in the order received.
ReceivedSoFar ==
    out[Main] \o (IF pc[Main] # "print" THEN <<>>
                  ELSE IF cfg.prog = "basic" THEN <<loc[Main].msg>> ELSE <<loc[Main].num>>)

\* C12: on a channel with one sender and one receiver (the unbuffered channel
\* of sender and receiver and of basicChannelExample, the buffered channel of
\* bufferedChannelExample) the values received followed by the values still
\* buffered are at all times the values sent, in the order sent; when the
\* receiving side has finished it has received every value sent.
C12_FifoSingleProducer ==
    /\ ReceivedSoFar \o ch[IF cfg.prog = "basic" THEN "messages" ELSE "ch"].buf = SentSoFar
    /\ (pc[Main] = "done" /\ cfg.prog = "uni") => out[Main] = UpTo(cfg.count)
    /\ (pc[Main] = "done" /\ cfg.prog = "buffered") => out[Main] = UpTo(cfg.sends)
    /\ (pc[Main] = "done" /\ cfg.prog = "basic") => out[Main] = Messages

\* bufferedChannelExample as in the source has received 1, 2 of its 3 values.
C12_Witness ==
    /\ cfg.prog = "buffered"
    /\ cfg.cap = bufferCap
    /\ cfg.sends = bufferCap
    /\ out[Main] = <<1, 2>>
    /\ ch["ch"].buf = <<3>>

\* C20: on the channels of capacity 0 no value is ever held in the channel and
\* a send completes only in the step in which the receiver takes the value.
\* On the channel of capacity C of bufferedChannelExample the sends made so
\* far have all completed into the buffer with no receive, at most C of them;
\* a further send with C values buffered does not complete; the program gets
\* past its sends only when they all fit, and then prints their number as the
\* length (3 for the three sends of the source).
C20_CapacitySemantics ==
    /\ [](cfg.prog \in {"basic", "uni"} =>
             ch[IF cfg.prog = "basic" THEN "messages" ELSE "ch"].buf = <<>>)
    /\ [][(cfg.prog \in {"basic", "uni"} /\ Len(SentSoFar') > Len(SentSoFar)) =>
             /\ pc[Main] = "range"
             /\ pc'[Main] = "print"
             /\ ReceivedSoFar' = SentSoFar']_vars
    /\ []((cfg.prog = "buffered" /\ pc[Main] = "send") =>
             /\ Len(ch["ch"].buf) = loc[Main].i - 1
             /\ Len(ch["ch"].buf) <= cfg.cap
             /\ out[Main] = <<>>)
    /\ [][(cfg.prog = "buffered" /\ pc[Main] = "send" /\ loc[Main].i <= cfg.sends
              /\ Len(ch["ch"].buf) = cfg.cap) => FALSE]_vars
    /\ []((cfg.prog = "buffered" /\ pc[Main] # "send") =>
             /\ cfg.sends <= cfg.cap
             /\ loc[Main].len = cfg.sends)

\* Three values are buffered in the channel of capacity 3 with nothing
\* received, and main is at a fourth send.
C20_Witness ==
    /\ cfg.prog = "buffered"
    /\ cfg.cap = bufferCap
    /\ cfg.sends = bufferCap + 1
    /\ pc[Main] = "send"
    /\ loc[Main].i = bufferCap + 1
    /\ ch["ch"].buf = <<1, 2, 3>>
    /\ out[Main] = <<>>

\* =================================================== producerConsumerExample
\* channels.go:114-151 with producer (154-166) and consumer (169-186).
\* numProducers producers send cfg.count jobs each (numItems/numProducers, 10
\* in the source) on jobs; cfg.consumers consumers (numConsumers in the source,
\* and every count below it) receive from jobs and send one result per job on
\* results; both channels have capacity cfg.bufferSize (5 in the source).
\* Nothing closes jobs.

\* channels.go:118, const numProducers = 2
numProducers == 2

\* channels.go:119, const numConsumers = 3
numConsumers == 3

PCProcs(c) ==
    {Main, Collector} \cup {Producer(p) : p \in 1..numProducers}
                      \cup {Consumer(k) : k \in 1..c.consumers}

\* line 161: job := id*1000 + i
JobID(id, i) == id * 1000 + i

\* line 182: result := fmt.Sprintf("Consumer %d 完成 job %d (用时 %v)", ...)
\* (the random processing time plays no part and is left out)
JobResult(id, job) == [consumer |-> id, job |-> job]

\* The locals: a loop counter i, and the job of the iteration a consumer is in.
PCLocals == [i |-> 0, job |-> 0]

InitProdCons ==
    /\ cfg \in [prog : {"prodcons"}, consumers : 0..numConsumers,
                count : 0..MaxCount, bufferSize : 1..MaxBuffer]
    /\ pc = [p \in PCProcs(cfg) |-> IF p = Main THEN "add_producer" ELSE "unstarted"]
    /\ loc = [p \in PCProcs(cfg) |-> IF p = Main THEN [PCLocals EXCEPT !.i = 1] ELSE PCLocals]
    /\ ch = [c \in {"jobs", "results"} |-> NewChan]
    /\ wg = 0
    /\ out = [p \in {Main} |-> <<>>]
    /\ panicked = "none"
    /\ now = 0

\* line 129-130: for p := 1; p <= numProducers; p++ { wg.Add(1)
PCAddProducer ==
    /\ At(Main, "add_producer")
    /\ IF loc[Main].i <= numProducers
       THEN /\ wg' = WgAdd(wg, 1)
            /\ pc' = [pc EXCEPT ![Main] = "go_producer"]
            /\ loc' = loc
       ELSE /\ pc' = [pc EXCEPT ![Main] = "add_consumer"]
            /\ loc' = [loc EXCEPT ![Main].i = 1]
            /\ wg' = wg
    /\ UNCHANGED <<cfg, ch, out, panicked, now>>

\* line 131: go producer(p, jobs, &wg, numItems/numProducers)
PCGoProducer ==
    /\ At(Main, "go_producer")
    /\ pc' = [pc EXCEPT ![Main] = "add_producer", ![Producer(loc[Main].i)] = "loop"]
    /\ loc' = [loc EXCEPT ![Main].i = @ + 1]
    /\ UNCHANGED <<cfg, ch, wg, out, panicked, now>>

\* line 135-136: for c := 1; c <= numConsumers; c++ { wg.Add(1)
PCAddConsumer ==
    /\ At(Main, "add_consumer")
    /\ IF loc[Main].i <= cfg.consumers
       THEN /\ wg' = WgAdd(wg, 1)
            /\ pc' = [pc EXCEPT ![Main] = "go_consumer"]
       ELSE /\ pc' = [pc EXCEPT ![Main] = "go_collector"]
            /\ wg' = wg
    /\ UNCHANGED <<cfg, loc, ch, out, panicked, now>>

\* line 137: go consumer(c, jobs, results, &wg)
PCGoConsumer ==
    /\ At(Main, "go_consumer")
    /\ pc' = [pc EXCEPT ![Main] = "add_consumer", ![Consumer(loc[Main].i)] = "range"]
    /\ loc' = [loc EXCEPT ![Main].i = @ + 1]
    /\ UNCHANGED <<cfg, ch, wg, out, panicked, now>>

\* line 141: go func() { wg.Wait(); close(results) }()
PCGoCollector ==
    /\ At(Main, "go_collector")
    /\ pc' = [pc EXCEPT ![Main] = "range", ![Collector] = "wait"]
    /\ UNCHANGED <<cfg, loc, ch, wg, out, panicked, now>>

\* line 148-150: for result := range results { fmt.Println(result) }
PCCollect ==
    /\ At(Main, "range")
    /\ IF Len(ch["results"].buf) > 0
       THEN /\ out' = [out EXCEPT ![Main] = Append(@, Head(ch["results"].buf))]
            /\ ch' = [ch EXCEPT !["results"] = Dequeue(@)]
            /\ pc' = pc
       ELSE /\ ch["results"].closed
            /\ pc' = [pc EXCEPT ![Main] = "done"]
            /\ UNCHANGED <<ch, out>>
    /\ UNCHANGED <<cfg, loc, wg, panicked, now>>

\* Faulty variant: a producer that overwrites the newest buffered job when the
\* channel is full instead of waiting for room.
PCProduceOverwriting(p) ==
    /\ At(Producer(p), "loop")
    /\ loc[Producer(p)].i < cfg.count
    /\ ch' = [ch EXCEPT !["jobs"].buf =
                 IF HasRoom(ch["jobs"], cfg.bufferSize)
                 THEN Append(@, JobID(p, loc[Producer(p)].i))
                 ELSE Append(SubSeq(@, 1, Len(@) - 1), JobID(p, loc[Producer(p)].i))]
    /\ loc' = [loc EXCEPT ![Producer(p)].i = @ + 1]
    /\ UNCHANGED <<cfg, pc, wg, out, panicked, now>>
\* line 160-164: for i := 0; i < count; i++ { job := id*1000 + i; jobs <- job;
\* time.Sleep(...) }
PCProduce(p) ==
    /\ At(Producer(p), "loop")
    /\ loc[Producer(p)].i < cfg.count
    /\ IF ch["jobs"].closed
       THEN /\ panicked' = "send on closed channel"
            /\ UNCHANGED <<ch, loc>>
       ELSE /\ HasRoom(ch["jobs"], cfg.bufferSize)
            /\ ch' = [ch EXCEPT !["jobs"] = Enqueue(@, JobID(p, loc[Producer(p)].i))]
            /\ loc' = [loc EXCEPT ![Producer(p)].i = @ + 1]
            /\ panicked' = panicked
    /\ UNCHANGED <<cfg, pc, wg, out, now>>

\* line 165-166 and the deferred wg.Done() of line 155
PCProducerDone(p) ==
    /\ At(Producer(p), "loop")
    /\ loc[Producer(p)].i >= cfg.count
    /\ wg' = WgAdd(wg, -1)
    /\ panicked' = IF wg' < 0 THEN "sync: negative WaitGroup counter" ELSE panicked
    /\ pc' = [pc EXCEPT ![Producer(p)] = "done"]
    /\ UNCHANGED <<cfg, loc, ch, out, now>>

\* Faulty variant: a consumer that reads the oldest job and leaves it in the
\* channel.
PCConsumePeeking(k) ==
    /\ At(Consumer(k), "range")
    /\ Len(ch["jobs"].buf) > 0
    /\ loc' = [loc EXCEPT ![Consumer(k)].job = Head(ch["jobs"].buf)]
    /\ pc' = [pc EXCEPT ![Consumer(k)] = "send"]
    /\ UNCHANGED <<cfg, ch, wg, out, panicked, now>>
\* line 175-183: for job := range jobs { Sleep(processingTime); result := ...
\* On the closed and empty channel the loop ends and the deferred wg.Done() of
\* line 170 runs.
PCConsume(k) ==
    /\ At(Consumer(k), "range")
    /\ IF Len(ch["jobs"].buf) > 0
       THEN /\ loc' = [loc EXCEPT ![Consumer(k)].job = Head(ch["jobs"].buf)]
            /\ ch' = [ch EXCEPT !["jobs"] = Dequeue(@)]
            /\ pc' = [pc EXCEPT ![Consumer(k)] = "send"]
            /\ UNCHANGED <<wg, panicked>>
       ELSE /\ ch["jobs"].closed
            /\ wg' = WgAdd(wg, -1)
            /\ panicked' = IF wg' < 0 THEN "sync: negative WaitGroup counter" ELSE panicked
            /\ pc' = [pc EXCEPT ![Consumer(k)] = "done"]
            /\ UNCHANGED <<ch, loc>>
    /\ UNCHANGED <<cfg, out, now>>

\* line 184: results <- result
PCConsumerSend(k) ==
    /\ At(Consumer(k), "send")
    /\ IF ch["results"].closed
       THEN /\ panicked' = "send on closed channel"
            /\ UNCHANGED <<ch, pc, loc>>
       ELSE /\ HasRoom(ch["results"], cfg.bufferSize)
            /\ ch' = [ch EXCEPT !["results"] = Enqueue(@, JobResult(k, loc[Consumer(k)].job))]
            /\ pc' = [pc EXCEPT ![Consumer(k)] = "range"]
            /\ loc' = [loc EXCEPT ![Consumer(k)].job = 0]
            /\ panicked' = panicked
    /\ UNCHANGED <<cfg, wg, out, now>>

\* Faulty variant: a collector that closes results without waiting.
PCCollectorNoWait ==
    /\ At(Collector, "wait")
    /\ cfg.prog = "prodcons"
    /\ pc' = [pc EXCEPT ![Collector] = "close"]
    /\ UNCHANGED <<cfg, loc, ch, wg, out, panicked, now>>
\* line 142: wg.Wait()
PCCollectorWait ==
    /\ At(Collector, "wait")
    /\ cfg.prog = "prodcons"
    /\ WaitReleased(wg)
    /\ pc' = [pc EXCEPT ![Collector] = "close"]
    /\ UNCHANGED <<cfg, loc, ch, wg, out, panicked, now>>

\* line 143: close(results)
PCCollectorClose ==
    /\ At(Collector, "close")
    /\ cfg.prog = "prodcons"
    /\ pc' = [pc EXCEPT ![Collector] = "done"]
    /\ ch' = [ch EXCEPT !["results"] = Closed(@)]
    /\ panicked' = IF ch["results"].closed THEN "close of closed channel" ELSE panicked
    /\ UNCHANGED <<cfg, loc, wg, out, now>>

NextProdCons ==
    \/ PCAddProducer
    \/ PCGoProducer
    \/ PCAddConsumer
    \/ PCGoConsumer
    \/ PCGoCollector
    \/ PCCollect
    \/ \E p \in 1..numProducers : PCProduce(p)
    \/ \E p \in 1..numProducers : PCProducerDone(p)
    \/ \E k \in 1..cfg.consumers : PCConsume(k)
    \/ \E k \in 1..cfg.consumers : PCConsumerSend(k)
    \/ PCCollectorWait
    \/ PCCollectorClose

SpecProdCons == InitProdCons /\ [][NextProdCons]_vars

\* The Go scheduler runs every runnable goroutine eventually.
FairProdCons == SpecProdCons /\ WF_vars(NextProdCons)

\* Both programs in which several goroutines receive from one channel: a run
\* is one of workerPoolExample or of producerConsumerExample.
NextSharedQueue ==
    \/ cfg.prog = "pool" /\ NextPool
    \/ cfg.prog = "prodcons" /\ NextProdCons

SpecSharedQueue == (InitPool \/ InitProdCons) /\ [][NextSharedQueue]_vars

\* ------------------------------------------- shared queues: claims
\* The number of indices of sequence s whose element satisfies s[j] = v, for
\* the sequence of the ids carried by a channel or printed by main.
Occurrences(s, v) == Cardinality({j \in 1..Len(s) : s[j] = v})

\* The jobs the producers have sent so far.
JobsSent == UNION {{JobID(p, i) : i \in 0..(loc[Producer(p)].i - 1)} : p \in 1..numProducers}

\* The number of places job j is at: buffered in jobs, in the hands of a
\* consumer, buffered in results, printed by main.
JobPlaces(j) ==
    Occurrences(ch["jobs"].buf, j)
       + Cardinality({k \in 1..cfg.consumers : pc[Consumer(k)] = "send" /\ loc[Consumer(k)].job = j})
       + Occurrences([n \in 1..Len(ch["results"].buf) |-> ch["results"].buf[n].job], j)
       + Occurrences([n \in 1..Len(out[Main]) |-> out[Main][n].job], j)

\* The jobs that are anywhere at all.
JobsAnywhere ==
    Len(ch["jobs"].buf)
       + Cardinality({k \in 1..cfg.consumers : pc[Consumer(k)] = "send"})
       + Len(ch["results"].buf) + Len(out[Main])

\* C13: the channels never hold more values than their capacity; a producer's
\* send completes only when jobs has room, appends its job and leaves the
\* buffered jobs alone, so with jobs full no producer gets past its send
\* until a consumer has taken a job; no job sent is dropped or overwritten
\* (each is at exactly one place at all times); and with a consumer running
\* every job the producers send is eventually received and its result
\* printed.
C13_Backpressure ==
    /\ [](/\ Len(ch["jobs"].buf) <= cfg.bufferSize
          /\ Len(ch["results"].buf) <= cfg.bufferSize)
    /\ [][\A p \in 1..numProducers :
             loc'[Producer(p)].i # loc[Producer(p)].i =>
                /\ Len(ch["jobs"].buf) < cfg.bufferSize
                /\ ch'["jobs"].buf = Append(ch["jobs"].buf, JobID(p, loc[Producer(p)].i))]_vars
    /\ [](/\ \A j \in JobsSent : JobPlaces(j) = 1
          /\ JobsAnywhere = Cardinality(JobsSent))
    /\ (cfg.consumers >= 1) ~>
          (/\ Len(out[Main]) = numProducers * cfg.count
           /\ \A p \in 1..numProducers : pc[Producer(p)] = "done")

\* jobs is full and a producer is held at its send; the consumers are
\* running and have not yet taken the buffered job.
C13_Witness ==
    /\ cfg.consumers = numConsumers
    /\ cfg.count = MaxCount
    /\ Len(ch["jobs"].buf) = cfg.bufferSize
    /\ \E p \in 1..numProducers :
          /\ pc[Producer(p)] = "loop"
          /\ loc[Producer(p)].i < cfg.count
    /\ \A k \in 1..cfg.consumers : pc[Consumer(k)] = "range"

\* The number of places task t of the pool is at: buffered in tasks, in the
\* hands of a worker, buffered in results, printed by main.
TaskPlaces(t) ==
    Occurrences([n \in 1..Len(ch["tasks"].buf) |-> ch["tasks"].buf[n].ID], t)
       + Cardinality({i \in 1..cfg.workers :
                         pc[Worker(i)] \in {"work", "send"} /\ loc[Worker(i)].task.ID = t})
       + Occurrences([n \in 1..Len(ch["results"].buf) |-> ch["results"].buf[n].task], t)
       + Occurrences(PoolCollected, t)

\* C15: of the workers of the pool, and of the consumers of
\* producerConsumerExample, receiving from the one shared channel, exactly one
\* receives each value: a task (job) that has been sent is either still
\* buffered or has been taken by exactly one worker (consumer), whose result
\* for it is the only one; none is skipped and none is there twice.
C15_ExactlyOnceDelivery ==
    /\ cfg.prog = "pool" =>
          /\ \A t \in 1..(loc[Sender].i - 1) : TaskPlaces(t) = 1
          /\ Len(ch["tasks"].buf) + TasksTaken = loc[Sender].i - 1
    /\ cfg.prog = "prodcons" =>
          /\ \A j \in JobsSent : JobPlaces(j) = 1
          /\ JobsAnywhere = Cardinality(JobsSent)

\* Two jobs of producerConsumerExample have gone to two different consumers.
C15_Witness ==
    /\ cfg.prog = "prodcons"
    /\ cfg.consumers = numConsumers
    /\ Len(out[Main]) = 2
    /\ out[Main][1].consumer # out[Main][2].consumer
    /\ out[Main][1].job # out[Main][2].job

\* ========================================================= waitGroupExample
\* goroutines.go:37-58: main starts cfg.workers goroutines (3 in the source,
\* and every count below it), each after a wg.Add(1); goroutine id sleeps id
\* seconds and calls Done; main waits for them.  Time passes as in
\* timeoutExample: a second at a time and only when no step is due.

\* goroutines.go:43, for i := 1; i <= 3; i++
waitWorkers == 3

WaitProcs(c) == {Main} \cup {Worker(i) : i \in 1..c.workers}

\* The locals: main's loop counter i, and the instant a worker's sleep ends.
WaitLocals == [i |-> 1, until |-> 0]

InitWaitGroup ==
    /\ cfg \in [prog : {"waitgroup"}, workers : 0..waitWorkers]
    /\ pc = [p \in WaitProcs(cfg) |-> IF p = Main THEN "add" ELSE "unstarted"]
    /\ loc = [p \in WaitProcs(cfg) |-> WaitLocals]
    /\ ch = [c \in {} |-> NewChan]
    /\ wg = 0
    /\ out = [p \in {Main} |-> <<>>]
    /\ panicked = "none"
    /\ now = 0

\* line 43-44: for i := 1; i <= 3; i++ { wg.Add(1)
WGAdd ==
    /\ At(Main, "add")
    /\ IF loc[Main].i <= cfg.workers
       THEN /\ wg' = WgAdd(wg, 1)
            /\ pc' = [pc EXCEPT ![Main] = "go"]
       ELSE /\ pc' = [pc EXCEPT ![Main] = "wait"]
            /\ wg' = wg
    /\ UNCHANGED <<cfg, loc, ch, out, panicked, now>>

\* line 46-50: go func(id int) { ... time.Sleep(time.Duration(id) * time.Second)
WGGo ==
    /\ At(Main, "go")
    /\ pc' = [pc EXCEPT ![Main] = "add", ![Worker(loc[Main].i)] = "sleep"]
    /\ loc' = [loc EXCEPT ![Main].i = @ + 1,
                          ![Worker(loc[Main].i)].until = now + loc[Main].i]
    /\ UNCHANGED <<cfg, ch, wg, out, panicked, now>>

\* Faulty variant: a worker that returns without calling Done.
WGWorkerExitNoDone(i) ==
    /\ At(Worker(i), "sleep")
    /\ Expired(loc[Worker(i)].until)
    /\ pc' = [pc EXCEPT ![Worker(i)] = "done"]
    /\ UNCHANGED <<cfg, loc, ch, wg, out, panicked, now>>
\* line 50-52 and the deferred wg.Done() of line 47: the sleep ends and the
\* goroutine returns.
WGWorkerDone(i) ==
    /\ At(Worker(i), "sleep")
    /\ Expired(loc[Worker(i)].until)
    /\ wg' = WgAdd(wg, -1)
    /\ panicked' = IF wg' < 0 THEN "sync: negative WaitGroup counter" ELSE panicked
    /\ pc' = [pc EXCEPT ![Worker(i)] = "done"]
    /\ UNCHANGED <<cfg, loc, ch, out, now>>

\* line 56-57: wg.Wait(); fmt.Println("所有工作完成！")
WGWait ==
    /\ At(Main, "wait")
    /\ WaitReleased(wg)
    /\ pc' = [pc EXCEPT ![Main] = "done"]
    /\ out' = [out EXCEPT ![Main] = Append(@, "all done")]
    /\ UNCHANGED <<cfg, loc, ch, wg, panicked, now>>

\* Some step of the program can be taken at the present instant.
WGDue ==
    \/ pc[Main] \in {"add", "go"}
    \/ pc[Main] = "wait" /\ WaitReleased(wg)
    \/ \E i \in 1..cfg.workers : At(Worker(i), "sleep") /\ Expired(loc[Worker(i)].until)

\* A second passes while a worker sleeps and nothing is due.
WGTick ==
    /\ \E i \in 1..cfg.workers : At(Worker(i), "sleep")
    /\ ~WGDue
    /\ now' = now + 1
    /\ UNCHANGED <<cfg, pc, loc, ch, wg, out, panicked>>

NextWaitGroup ==
    \/ WGAdd
    \/ WGGo
    \/ \E i \in 1..cfg.workers : WGWorkerDone(i)
    \/ WGWait
    \/ WGTick

SpecWaitGroup == InitWaitGroup /\ [][NextWaitGroup]_vars

\* The three programs that wait on a sync.WaitGroup: a run is one of
\* waitGroupExample, workerPoolExample or fanInExample with fanIn.
NextCounted ==
    \/ cfg.prog = "waitgroup" /\ NextWaitGroup
    \/ cfg.prog = "pool" /\ NextPool
    \/ cfg.prog = "fanIn" /\ NextFanIn

SpecCounted == (InitWaitGroup \/ InitPool \/ InitFanIn) /\ [][NextCounted]_vars

\* ----------------------------------------------------- WaitGroup: claims
\* The goroutines the WaitGroup accounts for, and the goroutine that waits.
Accounted ==
    IF cfg.prog = "fanIn" THEN {Forwarder(k) : k \in 1..cfg.inputs}
    ELSE {Worker(i) : i \in 1..cfg.workers}

Waiter ==
    IF cfg.prog = "fanIn" THEN Closer ELSE IF cfg.prog = "pool" THEN Collector ELSE Main

\* wg.Wait() has been called; it has returned.
WaitCalled == pc[Waiter] \notin {"unstarted", "add", "go"}
WaitReturned == pc[Waiter] \notin {"unstarted", "add", "go", "wait"}

\* The counter is never negative; it counts exactly the goroutines started and
\* not yet returned, plus the one main has added and is about to start (so
\* each Add(1) precedes its goroutine and each goroutine calls Done once, as
\* it returns); Wait is called after the last Add and returns only with the
\* counter at zero and every goroutine returned.
CounterDiscipline ==
    /\ wg >= 0
    /\ panicked = "none"
    /\ wg = Cardinality({p \in Accounted : pc[p] \notin {"unstarted", "done"}})
               + (IF pc[Main] = "go" THEN 1 ELSE 0)
    /\ WaitCalled => \A p \in Accounted : pc[p] # "unstarted"
    /\ WaitReturned => (wg = 0 /\ \A p \in Accounted : pc[p] = "done")

\* A step that brings the counter to zero is the Done of the last goroutine:
\* they have all been started and have all returned.
ZeroIsFinal == (wg > 0 /\ wg' = 0) => \A p \in Accounted : pc'[p] = "done"

\* C16 as claimed: in waitGroupExample, workerPoolExample and fanIn the
\* counter is never negative, every Add(1) precedes the start of its
\* goroutine, every such goroutine calls Done exactly once on exit, the counter
\* reaches zero exactly once, and Wait returns only after that, once.
C16_ZeroExactlyOnce ==
    /\ []CounterDiscipline
    /\ [][ZeroIsFinal]_vars

\* C16 as it holds: the same, with the counter reaching zero exactly once in
\* waitGroupExample and workerPoolExample only.  In fanIn the counter can be
\* at zero between two Adds (a forwarder whose input is closed with nothing
\* sent returns before the next forwarder is added); there Wait, called after
\* the last Add, still returns only with the counter at zero for good.
C16_WaitGroupDiscipline ==
    /\ []CounterDiscipline
    /\ [][cfg.prog # "fanIn" => ZeroIsFinal]_vars
    /\ [][WaitReturned => (wg' = 0 /\ WaitReturned')]_vars

\* The three workers of waitGroupExample have returned after 1, 2 and 3
\* seconds and Wait has returned.
C16_Witness ==
    /\ cfg.prog = "waitgroup"
    /\ cfg.workers = waitWorkers
    /\ pc[Main] = "done"
    /\ wg = 0
    /\ now = waitWorkers

\* ========================================= README: Context (cancellation)
\* README.md:524-548: main makes a context with a 2 s timeout, starts three
\* doWork goroutines and sleeps 3 s; doWork polls ctx.Done() in a select with
\* a default that works for 500 ms.  The clock counts half seconds here:
\* cfg.timeout and cfg.sleep are the two durations of a run (4 and 6 in the
\* README).  When main returns the program is over: no goroutine takes
\* another step.

\* README.md:543, for i := 1; i <= 3; i++
ctxWorkers == 3
\* README.md:539, time.Second*2, in half seconds
ctxTimeout == 4
\* README.md:547, time.Sleep(time.Second * 3), in half seconds
ctxSleep == 6
\* README.md:532, time.Sleep(time.Millisecond * 500), in half seconds
ctxPeriod == 1

\* The timer that context.WithTimeout arms.
Timer == <<"timer", 0>>
CtxProcs(c) == {Main, Timer} \cup {Worker(i) : i \in 1..c.workers}

InitContext ==
    /\ cfg \in [prog : {"context"}, workers : 0..ctxWorkers,
                timeout : 0..MaxDelay, sleep : 0..(MaxDelay + 2)]
    /\ pc = [p \in CtxProcs(cfg) |-> IF p = Main THEN "withTimeout" ELSE "unstarted"]
    /\ loc = [p \in CtxProcs(cfg) |-> WaitLocals]
    /\ ch = [c \in {"ctxDone"} |-> NewChan]
    /\ wg = 0
    /\ out = [p \in CtxProcs(cfg) \ {Timer} |-> <<>>]
    /\ panicked = "none"
    /\ now = 0

\* main has not returned: the process is alive.
CtxRunning == pc[Main] # "done"

\* cancel() and the timer both cancel the context once; a second
\* cancellation is a no-op.
Cancelled(c) == IF c.closed THEN c ELSE Closed(c)

\* line 539: ctx, cancel := context.WithTimeout(context.Background(), 2 s)
CtxWithTimeout ==
    /\ At(Main, "withTimeout")
    /\ pc' = [pc EXCEPT ![Main] = "go", ![Timer] = "armed"]
    /\ loc' = [loc EXCEPT ![Timer].until = now + cfg.timeout]
    /\ UNCHANGED <<cfg, ch, wg, out, panicked, now>>

\* line 543-547: for i := 1; i <= 3; i++ { go doWork(ctx, i) }; time.Sleep
CtxGo ==
    /\ At(Main, "go")
    /\ IF loc[Main].i <= cfg.workers
       THEN /\ pc' = [pc EXCEPT ![Worker(loc[Main].i)] = "select"]
            /\ loc' = [loc EXCEPT ![Main].i = @ + 1]
       ELSE /\ pc' = [pc EXCEPT ![Main] = "sleep"]
            /\ loc' = [loc EXCEPT ![Main].until = now + cfg.sleep]
    /\ UNCHANGED <<cfg, ch, wg, out, panicked, now>>

\* The deadline passes: the context is cancelled and ctx.Done() is closed.
CtxDeadline ==
    /\ At(Timer, "armed")
    /\ CtxRunning
    /\ Expired(loc[Timer].until)
    /\ pc' = [pc EXCEPT ![Timer] = "fired"]
    /\ ch' = [ch EXCEPT !["ctxDone"] = Cancelled(@)]
    /\ UNCHANGED <<cfg, loc, wg, out, panicked, now>>

\* Faulty variant: a loop that does not look at ctx.Done().
DoWorkSelectBlind(i) ==
    /\ At(Worker(i), "select")
    /\ CtxRunning
    /\ pc' = [pc EXCEPT ![Worker(i)] = "sleep"]
    /\ loc' = [loc EXCEPT ![Worker(i)].until = now + ctxPeriod]
    /\ UNCHANGED <<cfg, ch, wg, out, panicked, now>>
\* line 526-532: select { case <-ctx.Done(): return; default: Sleep(500 ms) }
DoWorkSelect(i) ==
    /\ At(Worker(i), "select")
    /\ CtxRunning
    /\ IF ch["ctxDone"].closed
       THEN /\ pc' = [pc EXCEPT ![Worker(i)] = "done"]
            /\ out' = [out EXCEPT ![Worker(i)] = Append(@, "cancelled")]
            /\ loc' = loc
       ELSE /\ pc' = [pc EXCEPT ![Worker(i)] = "sleep"]
            /\ loc' = [loc EXCEPT ![Worker(i)].until = now + ctxPeriod]
            /\ out' = out
    /\ UNCHANGED <<cfg, ch, wg, panicked, now>>

\* line 532, 525: the sleep ends and the loop comes round to the select
DoWorkWake(i) ==
    /\ At(Worker(i), "sleep")
    /\ CtxRunning
    /\ Expired(loc[Worker(i)].until)
    /\ pc' = [pc EXCEPT ![Worker(i)] = "select"]
    /\ UNCHANGED <<cfg, loc, ch, wg, out, panicked, now>>

\* line 547-548 and the deferred cancel() of line 540: main returns.
CtxMainReturn ==
    /\ At(Main, "sleep")
    /\ Expired(loc[Main].until)
    /\ pc' = [pc EXCEPT ![Main] = "done"]
    /\ ch' = [ch EXCEPT !["ctxDone"] = Cancelled(@)]
    /\ UNCHANGED <<cfg, loc, wg, out, panicked, now>>

\* Some step of the program can be taken at the present instant.
CtxDue ==
    \/ pc[Main] \in {"withTimeout", "go"}
    \/ pc[Main] = "sleep" /\ Expired(loc[Main].until)
    \/ pc[Timer] = "armed" /\ Expired(loc[Timer].until)
    \/ \E i \in 1..cfg.workers :
          \/ pc[Worker(i)] = "select"
          \/ pc[Worker(i)] = "sleep" /\ Expired(loc[Worker(i)].until)

\* Half a second passes while main sleeps and nothing is due.
CtxTick ==
    /\ At(Main, "sleep")
    /\ ~CtxDue
    /\ now' = now + 1
    /\ UNCHANGED <<cfg, pc, loc, ch, wg, out, panicked>>

NextContext ==
    \/ CtxWithTimeout
    \/ CtxGo
    \/ CtxDeadline
    \/ \E i \in 1..cfg.workers : DoWorkSelect(i)
    \/ \E i \in 1..cfg.workers : DoWorkWake(i)
    \/ CtxMainReturn
    \/ CtxTick

SpecContext == InitContext /\ [][NextContext]_vars

\* The programs with long-running loops: the doWork loops of the README, the
\* workers of workerPoolExample, and the stages square and filter.
NextCancel ==
    \/ cfg.prog = "context" /\ NextContext
    \/ cfg.prog = "pool" /\ NextPool
    \/ cfg.prog = "pipeline" /\ NextPipeline

SpecCancel == (InitContext \/ InitPool \/ InitPipeline) /\ [][NextCancel]_vars

\* Time passes and the Go scheduler runs every runnable goroutine eventually.
FairCancel == SpecCancel /\ WF_vars(NextCancel)

\* ---------------------------------------------------- cancellation: claims
\* The goroutines that run a worker or stage loop.
Loops ==
    IF cfg.prog = "pipeline" THEN {Squarer, Filter}
    ELSE {Worker(i) : i \in 1..cfg.workers}

\* The channels goroutine p waits on where it stands: the cases of doWork's
\* select (README.md:527), the range and the send of worker
\* (goroutines.go:71, 81), of square (channels.go:350, 353) and of filter
\* (channels.go:364, 367).
Watches(p) ==
    CASE cfg.prog = "context" /\ pc[p] = "select" -> {"ctxDone"}
      [] cfg.prog = "pool" /\ pc[p] = "range" -> {"tasks"}
      [] cfg.prog = "pool" /\ pc[p] = "send" -> {"results"}
      [] cfg.prog = "pipeline" /\ pc[p] = "range" ->
            IF p = Squarer THEN {"numbers"} ELSE {"squared"}
      [] cfg.prog = "pipeline" /\ pc[p] = "send" ->
            IF p = Squarer THEN {"squared"} ELSE {"filtered"}
      [] OTHER -> {}

LoopInput(p) ==
    IF cfg.prog = "pool" THEN "tasks"
    ELSE IF p = Squarer THEN "numbers" ELSE "squared"

IsOdd(n) == n % 2 = 1
\* README.md:497: n%2 == 0
IsEven(n) == n % 2 = 0

\* README.md:507: numbers := generate(1, 2, 3, 4, 5, 6, 7, 8, 9, 10)
InitEvens ==
    /\ cfg = [prog |-> "evens", start |-> pipeStart, end |-> pipeEnd]
    /\ pc = [p \in PipeProcs |-> IF p = Main THEN "generateNumbers" ELSE "unstarted"]
    /\ loc = [p \in PipeProcs |-> PipeLocals]
    /\ ch = [c \in PipeChans |-> NewChan]
    /\ wg = 0
    /\ out = [p \in {Squarer, Filter, Main} |-> <<>>]
    /\ panicked = "none"
    /\ now = 0

\* README.md:496-499: for n := range in { if n%2 == 0 { out <- n } }
EvensTest ==
    /\ At(Filter, "test")
    /\ pc' = [pc EXCEPT ![Filter] = IF IsEven(loc[Filter].num) THEN "send" ELSE "range"]
    /\ loc' = [loc EXCEPT ![Filter].num = IF IsEven(@) THEN @ ELSE 0]
    /\ UNCHANGED <<cfg, ch, wg, out, panicked, now>>

NextEvens ==
    \/ PipeGoGenerate
    \/ PipeGoSquare
    \/ PipeGoFilter
    \/ GenerateSend
    \/ GenerateSleep
    \/ GenerateClose
    \/ SquareCompute
    \/ SquareSend
    \/ SquareRangeEnd
    \/ SquareClose
    \/ EvensTest
    \/ FilterSend
    \/ FilterRangeEnd
    \/ FilterClose
    \/ PipeRangeEnd

SpecEvens == InitEvens /\ [][NextEvens]_vars

\* The Go scheduler runs every runnable goroutine eventually.
FairEvens == SpecEvens /\ WF_vars(NextEvens)

\* C22: the README pipeline generate(1..10) -> square -> filter(even)
\* delivers exactly 4, 16, 36, 64, 100 in that order to main: what main has
\* received is always a prefix of that sequence, the final channel is closed
\* only after all five, and main's range loop eventually ends with all five
\* received.
C22_ReadmePipeline ==
    /\ [](IsPrefix(out[Main], <<4, 16, 36, 64, 100>>))
    /\ [](ch["filtered"].closed => out[Main] = <<4, 16, 36, 64, 100>>)
    /\ [](pc[Main] = "done" => ch["filtered"].closed)
    /\ <>(pc[Main] = "done")

\* main's loop has ended with five values received out of the ten squares
\* the filter was given.
C22_Witness ==
    /\ cfg.prog = "evens"
    /\ pc[Main] = "done"
    /\ out[Main] = <<4, 16, 36, 64, 100>>
    /\ out[Filter] = Squares(Range(pipeStart, pipeEnd))

\* ------------------------------------- producerConsumerExample: termination
\* C23 as claimed: producerConsumerExample terminates.  A run with its three
\* consumers and at least one job per producer that can take no further step
\* has ended as described: every
\* consumer loop has ended, the WaitGroup is at zero, the collector has closed
\* results, and main's range loop has exited with one result per job sent.
C23_ProducerConsumerTerminates ==
    (cfg.consumers = numConsumers /\ cfg.count >= 1 /\ ~ENABLED NextProdCons) =>
        /\ \A k \in 1..cfg.consumers : pc[Consumer(k)] = "done"
        /\ wg = 0
        /\ ch["results"].closed
        /\ pc[Main] = "done"
        /\ Len(out[Main]) = numProducers * cfg.count

\* ============================================ README: fanIn with select
\* README.md:210-238: one goroutine selects over input1 and input2 and sends
\* what it receives on the unbuffered output; an input found closed is set to
\* nil and the loop continues.  The README shows no caller: each input is fed
\* by a goroutine that sends cfg.items[k] values and closes it, as the sources
\* of fanInExample do, and main ranges over output.  The run starts with
\* fanIn called and all goroutines running.
Selector == <<"fanIn", 0>>
SelProcs == {Main, Selector, Producer(1), Producer(2)}

\* The locals: a source's loop counter, the value the selecting goroutine
\* holds, and the inputs it has set to nil.
SelLocals == [i |-> 1, data |-> Datum(0, 0), nil |-> {}]

InitSelectFanIn ==
    /\ cfg \in [prog : {"selectFanIn"}, inputs : {2}, items : [1..2 -> 0..MaxItems]]
    /\ pc = [p \in SelProcs |->
               IF p = Main THEN "range" ELSE IF p = Selector THEN "select" ELSE "loop"]
    /\ loc = [p \in SelProcs |-> SelLocals]
    /\ ch = [c \in {Output, Input(1), Input(2)} |-> NewChan]
    /\ wg = 0
    /\ out = [p \in {Main} |-> <<>>]
    /\ panicked = "none"
    /\ now = 0

\* line 218 (224) with ok true, meeting the source's send: a nil input never
\* yields a value.
SelectRecv(k) ==
    /\ At(Selector, "select")
    /\ k \notin loc[Selector].nil
    /\ At(Producer(k), "loop")
    /\ loc[Producer(k)].i <= cfg.items[k]
    /\ ~ch[Input(k)].closed
    /\ pc' = [pc EXCEPT ![Selector] = "send"]
    /\ loc' = [loc EXCEPT ![Selector].data = Datum(k, loc[Producer(k)].i),
                          ![Producer(k)].i = @ + 1]
    /\ UNCHANGED <<cfg, ch, wg, out, panicked, now>>

\* line 218-222 (224-228) with ok false: input = nil; continue.  The continue
\* goes back to the select, past the test of line 231.
SelectClosed(k) ==
    /\ At(Selector, "select")
    /\ k \notin loc[Selector].nil
    /\ ch[Input(k)].closed
    /\ loc' = [loc EXCEPT ![Selector].nil = @ \cup {k}]
    /\ UNCHANGED <<cfg, pc, ch, wg, out, panicked, now>>

\* main's `for v := range output`: on the closed output the loop ends;
\* otherwise it meets the send of line 223 (229), after which the selecting
\* goroutine tests line 231 (if input1 == nil && input2 == nil { break }) and,
\* on the break, runs the deferred close(output) of line 215.
SelectRange ==
    /\ At(Main, "range")
    /\ IF ch[Output].closed
       THEN /\ pc' = [pc EXCEPT ![Main] = "done"]
            /\ UNCHANGED <<loc, ch, out>>
       ELSE /\ At(Selector, "send")
            /\ out' = [out EXCEPT ![Main] = Append(@, loc[Selector].data)]
            /\ loc' = [loc EXCEPT ![Selector].data = Datum(0, 0)]
            /\ IF loc[Selector].nil = {1, 2}
               THEN /\ pc' = [pc EXCEPT ![Selector] = "done"]
                    /\ ch' = [ch EXCEPT ![Output] = Closed(@)]
               ELSE /\ pc' = [pc EXCEPT ![Selector] = "select"]
                    /\ ch' = ch
    /\ UNCHANGED <<cfg, wg, panicked, now>>

NextSelectFanIn ==
    \/ \E k \in 1..2 : SelectRecv(k)
    \/ \E k \in 1..2 : SelectClosed(k)
    \/ \E k \in 1..2 : SourceClose(k)
    \/ SelectRange

SpecSelectFanIn == InitSelectFanIn /\ [][NextSelectFanIn]_vars

\* The Go scheduler runs every runnable goroutine eventually.
FairSelectFanIn == SpecSelectFanIn /\ WF_vars(NextSelectFanIn)

\* C24 as claimed: the select-based fanIn closes its output once both inputs
\* are closed and drained.  A run in which both inputs carried a value and
\* are closed, main has received every value sent, and no further step is
\* possible has ended as
\* described: the forwarding goroutine has left its loop, output is closed
\* and main's range loop has terminated.
C24_SelectFanInCloses ==
    (/\ cfg.items[1] >= 1 /\ cfg.items[2] >= 1
     /\ ch[Input(1)].closed /\ ch[Input(2)].closed
     /\ Len(out[Main]) = cfg.items[1] + cfg.items[2]
     /\ ~ENABLED NextSelectFanIn) =>
        /\ pc[Selector] = "done"
        /\ ch[Output].closed
        /\ pc[Main] = "done"

\* ==================================================== raceConditionExample
\* goroutines.go:132-172: cfg.goroutines goroutines (100 in the source) call
\* counter.Increment() cfg.incs times each (100 in the source); main waits for
\* them and prints counter.Value().  c.value++ is a read of value followed by
\* a write of the value read plus one.
RaceProcs(c) == {Main} \cup {Worker(i) : i \in 1..c.goroutines}

\* The locals: the loop counters i (main) and j (a goroutine), the value read
\* by c.value++ or by Value(), and the SafeCounter{mu, value} that main's
\* variable counter points to (kept with main's locals).
RaceLocals == [i |-> 0, j |-> 0, read |-> 0, counter |-> [mu |-> FALSE, value |-> 0]]

\* The one SafeCounter of the run.
counter == loc[Main].counter

InitRace ==
    /\ cfg \in [prog : {"race"}, goroutines : 0..MaxGoroutines, incs : 0..MaxIncrements]
    /\ pc = [p \in RaceProcs(cfg) |-> IF p = Main THEN "add" ELSE "unstarted"]
    /\ loc = [p \in RaceProcs(cfg) |-> RaceLocals]
    /\ ch = [c \in {} |-> NewChan]
    /\ wg = 0
    /\ out = [p \in {Main} |-> <<>>]
    /\ panicked = "none"
    /\ now = 0

\* Faulty variant: a Lock that never waits.
LockAlwaysFree(c) == TRUE
\* c.mu.Lock() returns only when the mutex is not held.
LockFree(c) == ~c.mu

\* line 159-160: for i := 0; i < 100; i++ { wg.Add(1)
RaceAdd ==
    /\ At(Main, "add")
    /\ IF loc[Main].i < cfg.goroutines
       THEN /\ wg' = WgAdd(wg, 1)
            /\ pc' = [pc EXCEPT ![Main] = "go"]
       ELSE /\ pc' = [pc EXCEPT ![Main] = "wait"]
            /\ wg' = wg
    /\ UNCHANGED <<cfg, loc, ch, out, panicked, now>>

\* line 161: go func() { ... }()
RaceGo ==
    /\ At(Main, "go")
    /\ pc' = [pc EXCEPT ![Main] = "add", ![Worker(loc[Main].i + 1)] = "loop"]
    /\ loc' = [loc EXCEPT ![Main].i = @ + 1]
    /\ UNCHANGED <<cfg, ch, wg, out, panicked, now>>

\* line 163-165, 140: for j := 0; j < 100; j++ { counter.Increment() }, up to
\* c.mu.Lock(); after the loop the deferred wg.Done() of line 162 runs.
IncrementLock(i) ==
    /\ At(Worker(i), "loop")
    /\ IF loc[Worker(i)].j < cfg.incs
       THEN /\ LockFree(counter)
            /\ loc' = [loc EXCEPT ![Main].counter.mu = TRUE]
            /\ pc' = [pc EXCEPT ![Worker(i)] = "read"]
            /\ UNCHANGED <<wg, panicked>>
       ELSE /\ wg' = WgAdd(wg, -1)
            /\ panicked' = IF wg' < 0 THEN "sync: negative WaitGroup counter" ELSE panicked
            /\ pc' = [pc EXCEPT ![Worker(i)] = "done"]
            /\ loc' = loc
    /\ UNCHANGED <<cfg, ch, out, now>>

\* line 142: c.value++ (the read)
IncrementRead(i) ==
    /\ At(Worker(i), "read")
    /\ loc' = [loc EXCEPT ![Worker(i)].read = counter.value]
    /\ pc' = [pc EXCEPT ![Worker(i)] = "write"]
    /\ UNCHANGED <<cfg, ch, wg, out, panicked, now>>

\* line 142: c.value++ (the write)
IncrementWrite(i) ==
    /\ At(Worker(i), "write")
    /\ loc' = [loc EXCEPT ![Main].counter.value = loc[Worker(i)].read + 1]
    /\ pc' = [pc EXCEPT ![Worker(i)] = "unlock"]
    /\ UNCHANGED <<cfg, ch, wg, out, panicked, now>>

\* line 141: defer c.mu.Unlock(), and the j++ of line 163
IncrementUnlock(i) ==
    /\ At(Worker(i), "unlock")
    /\ loc' = [loc EXCEPT ![Main].counter.mu = FALSE,
                          ![Worker(i)].j = @ + 1,
                          ![Worker(i)].read = 0]
    /\ pc' = [pc EXCEPT ![Worker(i)] = "loop"]
    /\ UNCHANGED <<cfg, ch, wg, out, panicked, now>>

\* line 169: wg.Wait()
RaceWait ==
    /\ At(Main, "wait")
    /\ WaitReleased(wg)
    /\ pc' = [pc EXCEPT ![Main] = "value"]
    /\ UNCHANGED <<cfg, loc, ch, wg, out, panicked, now>>

\* line 170, 147: counter.Value(), up to c.mu.Lock()
ValueLock ==
    /\ At(Main, "value")
    /\ LockFree(counter)
    /\ loc' = [loc EXCEPT ![Main].counter.mu = TRUE]
    /\ pc' = [pc EXCEPT ![Main] = "return"]
    /\ UNCHANGED <<cfg, ch, wg, out, panicked, now>>

\* line 148-149, 170: return c.value, the deferred c.mu.Unlock(), and Printf
ValueReturn ==
    /\ At(Main, "return")
    /\ out' = [out EXCEPT ![Main] = Append(@, counter.value)]
    /\ loc' = [loc EXCEPT ![Main].counter.mu = FALSE]
    /\ pc' = [pc EXCEPT ![Main] = "done"]
    /\ UNCHANGED <<cfg, ch, wg, panicked, now>>

NextRace ==
    \/ RaceAdd
    \/ RaceGo
    \/ \E i \in 1..cfg.goroutines : IncrementLock(i)
    \/ \E i \in 1..cfg.goroutines : IncrementRead(i)
    \/ \E i \in 1..cfg.goroutines : IncrementWrite(i)
    \/ \E i \in 1..cfg.goroutines : IncrementUnlock(i)
    \/ RaceWait
    \/ ValueLock
    \/ ValueReturn

SpecRace == InitRace /\ [][NextRace]_vars

\* ------------------------------------------------------ SafeCounter: claims
\* The goroutines that hold the mutex: those between Lock and Unlock.
Holders == {p \in DOMAIN pc : pc[p] \in {"read", "write", "unlock", "return"}}

\* The calls of Increment() that have written value.
RECURSIVE Incremented(_)
Incremented(n) ==
    IF n = 0 THEN 0
    ELSE Incremented(n - 1) + loc[Worker(n)].j
            + (IF pc[Worker(n)] = "unlock" THEN 1 ELSE 0)

\* C25: SafeCounter loses no update: no two goroutines hold the mutex together
\* and the mutex is held exactly when some goroutine is between Lock and
\* Unlock; value always equals the number of increments made so far; and the
\* Value() main reads after Wait equals goroutines * increments.
C25_NoLostUpdate ==
    /\ Cardinality(Holders) <= 1
    /\ counter.mu <=> Holders # {}
    /\ counter.value = Incremented(cfg.goroutines)
    /\ pc[Main] \in {"value", "return", "done"} =>
          /\ \A i \in 1..cfg.goroutines : pc[Worker(i)] = "done"
          /\ counter.value = cfg.goroutines * cfg.incs
    /\ pc[Main] = "done" => out[Main] = <<cfg.goroutines * cfg.incs>>

\* main has printed the total of a run with the most goroutines and the most
\* increments each.
C25_Witness ==
    /\ cfg.goroutines = MaxGoroutines /\ cfg.incs = MaxIncrements
    /\ pc[Main] = "done"
    /\ out[Main] = <<MaxGoroutines * MaxIncrements>>

\* ============================================== closing and sending: claims
\* The five programs whose channels are closed while goroutines send on
\* them: a run is one of workerPoolExample, producerConsumerExample, fanIn
\* (with fanInExample), fanOut (with fanOutExample) or the pipeline.
NextOwned ==
    \/ cfg.prog = "pool" /\ NextPool
    \/ cfg.prog = "prodcons" /\ NextProdCons
    \/ cfg.prog = "fanIn" /\ NextFanIn
    \/ cfg.prog = "fanOut" /\ NextFanOut
    \/ cfg.prog = "pipeline" /\ NextPipeline

SpecOwned ==
    (InitPool \/ InitProdCons \/ InitFanIn \/ InitFanOut \/ InitPipeline)
        /\ [][NextOwned]_vars

\* The channel goroutine p is about to send on, if it stands at a send
\* statement (goroutines.go:114, 81; channels.go:163, 184, 199, 233, 256,
\* 306, 338, 353, 367).
SendsTo(p) ==
    CASE cfg.prog = "pool" /\ p = Sender /\ pc[p] = "loop" /\ loc[p].i <= cfg.tasks
            -> {"tasks"}
      [] cfg.prog = "pool" /\ p[1] = "worker" /\ pc[p] = "send" -> {"results"}
      [] cfg.prog = "prodcons" /\ p[1] = "producer" /\ pc[p] = "loop"
            /\ loc[p].i < cfg.count -> {"jobs"}
      [] cfg.prog = "prodcons" /\ p[1] = "consumer" /\ pc[p] = "send" -> {"results"}
      [] cfg.prog = "fanIn" /\ p[1] = "producer" /\ pc[p] = "loop"
            /\ loc[p].i <= cfg.items[p[2]] -> {Input(p[2])}
      [] cfg.prog = "fanIn" /\ p[1] = "forwarder" /\ pc[p] = "send" -> {Output}
      [] cfg.prog = "fanOut" /\ p = Source /\ pc[p] = "loop" /\ loc[p].i <= cfg.values
            -> {FanOutInput}
      [] cfg.prog = "fanOut" /\ p = Dispatcher /\ pc[p] = "send"
            -> {Outputs(Slot(loc[p].i, cfg.workers))}
      [] cfg.prog = "pipeline" /\ p = Generator /\ pc[p] = "loop" /\ loc[p].i <= cfg.end
            -> {"numbers"}
      [] cfg.prog = "pipeline" /\ p = Squarer /\ pc[p] = "send" -> {"squared"}
      [] cfg.prog = "pipeline" /\ p = Filter /\ pc[p] = "send" -> {"filtered"}
      [] OTHER -> {}

\* The goroutines that receive from channel c (goroutines.go:71, 127;
\* channels.go:175, 148, 232, 215, 304, 273, 350, 364, 327).
Receivers(c) ==
    IF cfg.prog = "pool"
    THEN (IF c = "tasks" THEN {Worker(i) : i \in 1..cfg.workers} ELSE {Main})
    ELSE IF cfg.prog = "prodcons"
    THEN (IF c = "jobs" THEN {Consumer(k) : k \in 1..cfg.consumers} ELSE {Main})
    ELSE IF cfg.prog = "fanIn"
    THEN (IF c = Output THEN {Main} ELSE {Forwarder(c[2])})
    ELSE IF cfg.prog = "fanOut"
    THEN (IF c = FanOutInput THEN {Dispatcher} ELSE {Consumer(c[2])})
    ELSE (IF c = "numbers" THEN {Squarer} ELSE IF c = "squared" THEN {Filter} ELSE {Main})

\* The goroutines that take part in the step.
Movers == {p \in DOMAIN pc : pc'[p] # pc[p] \/ loc'[p] # loc[p]}

\* C26: no send on a closed channel is reachable in workerPoolExample,
\* producerConsumerExample, fanIn, fanOut and the pipeline: no run panics, a
\* goroutine that stands at a send finds its channel open, every channel is
\* closed at most once, and the step that closes a channel is taken by one
\* goroutine, which does not receive from that channel.
C26_NoSendOnClosed ==
    /\ [](panicked = "none")
    /\ [](\A p \in DOMAIN pc : \A c \in SendsTo(p) : ~ch[c].closed)
    /\ [](\A c \in DOMAIN ch : ch[c].closes = (IF ch[c].closed THEN 1 ELSE 0))
    /\ [][\A c \in DOMAIN ch :
            (ch'[c].closed /\ ~ch[c].closed) =>
                Cardinality(Movers) = 1 /\ Movers \cap Receivers(c) = {}]_vars

\* fanOut has delivered every value, and the source and the dispatcher have
\* closed the input and each of the three outputs.
C26_Witness ==
    /\ cfg.prog = "fanOut"
    /\ cfg.workers = fanOutWorkers /\ cfg.values = MaxValues
    /\ ch[FanOutInput].closed
    /\ \A k \in 0..(cfg.workers - 1) : ch[Outputs(k)].closed
    /\ pc[Dispatcher] = "done"
    /\ panicked = "none"

\* ------------------------------------------------- fanOut: one at a time
\* The values the dispatcher has read from input so far (the source sends
\* 1, 2, ... and its send is the dispatcher's receive).
ValuesRead == loc[Source].i - 1

\* The output the value the dispatcher holds is destined for.
Destined == Slot(loc[Dispatcher].i, cfg.workers)

\* C27: fanOut dispatches one value at a time over unbuffered outputs.  The
\* dispatcher has read at most one value more than the consumers have
\* received, and exactly one more when it stands at its send; it leaves the
\* send only by the consumer of output i mod K receiving the value; and as
\* long as that consumer does not receive, the dispatcher reads nothing from
\* input, no value reaches any output and no output is closed.
C27_OneAtATime ==
    /\ [](pc[Dispatcher] \in {"range", "send"} =>
            /\ loc[Dispatcher].i = TotalReceived(cfg.workers - 1)
            /\ ValuesRead = TotalReceived(cfg.workers - 1)
                               + (IF pc[Dispatcher] = "send" THEN 1 ELSE 0)
            /\ \A k \in 0..(cfg.workers - 1) : ~ch[Outputs(k)].closed)
    /\ [][(pc[Dispatcher] = "send" /\ pc'[Dispatcher] # "send") =>
             /\ pc[Consumer(Destined)] = "range"
             /\ out' = [out EXCEPT ![Consumer(Destined)] = Append(@, loc[Dispatcher].data)]]_vars
    /\ [][(pc[Dispatcher] = "send" /\ pc'[Dispatcher] = "send") =>
             /\ out' = out
             /\ loc'[Source].i = loc[Source].i
             /\ loc'[Dispatcher] = loc[Dispatcher]
             /\ \A k \in 0..(cfg.workers - 1) : ~ch'[Outputs(k)].closed]_vars

\* The dispatcher holds the third value for output 0, whose consumer is still
\* busy with the first; the consumer of output 1 is idle and the source waits
\* to send the fourth value.
C27_Witness ==
    /\ cfg.prog = "fanOut" /\ cfg.workers = 2
    /\ pc[Dispatcher] = "send" /\ loc[Dispatcher].data = 3
    /\ pc[Consumer(0)] = "work" /\ out[Consumer(0)] = <<1>>
    /\ pc[Consumer(1)] = "range" /\ out[Consumer(1)] = <<2>>
    /\ pc[Source] = "loop" /\ loc[Source].i = 4 /\ cfg.values >= 4

\* ------------------------------------------------ timeoutExample: the leak
\* The timeout branch of timeoutExample's select has been taken.
TimedOut == cfg.prog = "timeout" /\ pc[Main] = "done" /\ out[Main] = <<"timed out">>

\* The task goroutine of timeoutExample stands at taskDone <- true.
JobBlocked == cfg.prog = "timeout" /\ pc[Job] = "send"

Outcomes == {"ok", "ErrNotExist", "ErrPermission"}

\* line 193: os.IsNotExist(err)
IsNotExist(e) == e = "ErrNotExist"

\* The nil error, and fmt.Errorf("重试 %d 次后仍然失败: %w", maxRetries, lastErr)
\* of line 203, which wraps lastErr.
NilError == [kind |-> "nil", retries |-> 0, wraps |-> "nil"]
Errorf(n, e) == [kind |-> "retry", retries |-> n, wraps |-> e]

\* The locals i and lastErr, and the (content, error) returned.
RetryLocals == [i |-> 0, lastErr |-> "nil", content |-> "", err |-> NilError]

InitRetry ==
    /\ cfg \in [prog : {"retry"}, maxRetries : 0..MaxRetries,
                outcomes : [1..MaxRetries -> Outcomes]]
    /\ pc = [p \in {Main} |-> "loop"]
    /\ loc = [p \in {Main} |-> RetryLocals]
    /\ ch = [c \in {} |-> NewChan]
    /\ wg = 0
    /\ out = [p \in {Main} |-> <<>>]
    /\ panicked = "none"
    /\ now = 0

\* line 186-195: for i := 0; i < maxRetries; i++ { content, err := readFile();
\* if err == nil { return content, nil }; lastErr = err;
\* if os.IsNotExist(err) { break } ...
RetryAttempt ==
    /\ At(Main, "loop")
    /\ IF loc[Main].i < cfg.maxRetries
       THEN LET o == cfg.outcomes[loc[Main].i + 1] IN
            /\ out' = [out EXCEPT ![Main] = Append(@, o)]
            /\ IF o = "ok"
               THEN /\ loc' = [loc EXCEPT ![Main].content = "content",
                                          ![Main].err = NilError]
                    /\ pc' = [pc EXCEPT ![Main] = "done"]
               ELSE /\ loc' = [loc EXCEPT ![Main].lastErr = o]
                    /\ pc' = [pc EXCEPT ![Main] = IF IsNotExist(o) THEN "return" ELSE "sleep"]
       ELSE /\ pc' = [pc EXCEPT ![Main] = "return"]
            /\ UNCHANGED <<loc, out>>
    /\ UNCHANGED <<cfg, ch, wg, panicked, now>>

\* line 198 and the i++ of line 186: time.Sleep((i+1) * 100 ms); the clock
\* counts tenths of a second here.
RetrySleep ==
    /\ At(Main, "sleep")
    /\ now' = now + loc[Main].i + 1
    /\ loc' = [loc EXCEPT ![Main].i = @ + 1]
    /\ pc' = [pc EXCEPT ![Main] = "loop"]
    /\ UNCHANGED <<cfg, ch, wg, out, panicked>>

\* line 203: return "", fmt.Errorf("...: %w", maxRetries, lastErr)
RetryReturn ==
    /\ At(Main, "return")
    /\ loc' = [loc EXCEPT ![Main].err = Errorf(cfg.maxRetries, loc[Main].lastErr)]
    /\ pc' = [pc EXCEPT ![Main] = "done"]
    /\ UNCHANGED <<cfg, ch, wg, out, panicked, now>>

NextRetry ==
    \/ RetryAttempt
    \/ RetrySleep
    \/ RetryReturn

SpecRetry == InitRetry /\ [][NextRetry]_vars

\* C29 as claimed: readFileWithRetry calls readFile at most maxRetries times;
\* it makes no further attempt after a successful one, which it returns with
\* a nil error, nor after one that fails with a file-does-not-exist error; and
\* whenever it returns an error, that error wraps the error of the last
\* attempt made.
C29_RetryContract ==
    /\ Len(out[Main]) <= cfg.maxRetries
    /\ \A j \in 1..(Len(out[Main]) - 1) : out[Main][j] \notin {"ok", "ErrNotExist"}
    /\ pc[Main] = "done" =>
          IF out[Main] # <<>> /\ out[Main][Len(out[Main])] = "ok"
          THEN loc[Main].err = NilError /\ loc[Main].content = "content"
          ELSE /\ loc[Main].err.kind = "retry"
               /\ out[Main] # <<>>
               /\ loc[Main].err.wraps = out[Main][Len(out[Main])]

\* ============================================================ RateLimiter
\* 06-frameworks/01-gin/main.go:138-172.  RateLimiter() makes one map
\* requests (client IP -> the times of its admitted requests) and returns the
\* handler; the server runs the handler of every request in a goroutine of
\* its own, and the map is shared by them without a lock.  cfg.limit is the
\* number of requests allowed (60 in the source) and cfg.window the length of
\* the window (time.Minute in the source) in clock ticks.  An IP that is not
\* in the map and one that maps to no times behave alike (len is 0, append
\* starts a new slice), so the map gives every client a sequence of times.
\*
\* The handlers' accesses to the map race: a handler can run between the
\* test and the append of another, an append can be made to a slice read
\* before another handler's append, and the Go runtime may end the program
\* ("concurrent map writes") when two handlers are in the map at once.
Clients == {"10.0.0.1", "10.0.0.2"}
Handler(h) == <<"handler", h>>
RateProcs == {Main} \cup {Handler(h) : h \in 1..MaxInFlight}

\* The locals of a handler: clientIP, now, and the slice read for the
\* append; and the map requests of RateLimiter (kept with main's locals).
RateLocals == [clientIP |-> "", t |-> 0, times |-> <<>>,
               requests |-> [c \in Clients |-> <<>>]]

\* The map all handlers share.
requests == loc[Main].requests

InitRateLimiter ==
    /\ cfg \in [prog : {"ratelimit"}, limit : 1..MaxLimit, window : 1..MaxWindow]
    /\ pc = [p \in RateProcs |-> "idle"]
    /\ loc = [p \in RateProcs |-> RateLocals]
    /\ ch = [c \in {} |-> NewChan]
    /\ wg = 0
    /\ out = [p \in RateProcs \ {Main} |-> <<>>]
    /\ panicked = "none"
    /\ now = 0

\* line 149-154: the times t with now.Sub(t) < time.Minute, in order
ValidTimes(times, t) == SelectSeq(times, LAMBDA x : t - x < cfg.window)

\* line 144-145: a request arrives: clientIP := c.ClientIP(); now := time.Now()
RateArrive(h) ==
    /\ At(Handler(h), "idle")
    /\ \E ip \in Clients :
          loc' = [loc EXCEPT ![Handler(h)].clientIP = ip, ![Handler(h)].t = now]
    /\ pc' = [pc EXCEPT ![Handler(h)] = "clean"]
    /\ out' = [out EXCEPT ![Handler(h)] = <<>>]
    /\ UNCHANGED <<cfg, ch, wg, panicked, now>>

\* line 148-156: requests[clientIP] = validTimes (the read of line 148 and
\* the write of line 155 in one step: one of the orders the race allows)
RateClean(h) ==
    /\ At(Handler(h), "clean")
    /\ loc' = [loc EXCEPT ![Main].requests[loc[Handler(h)].clientIP] =
                              ValidTimes(@, loc[Handler(h)].t)]
    /\ pc' = [pc EXCEPT ![Handler(h)] = "check"]
    /\ UNCHANGED <<cfg, ch, wg, out, panicked, now>>

\* line 159-166: if len(requests[clientIP]) >= 60 { c.JSON(429, ...);
\* c.Abort(); return }
RateCheck(h) ==
    /\ At(Handler(h), "check")
    /\ IF Len(requests[loc[Handler(h)].clientIP]) >= cfg.limit
       THEN /\ out' = [out EXCEPT ![Handler(h)] = <<429>>]
            /\ pc' = [pc EXCEPT ![Handler(h)] = "idle"]
            /\ loc' = [loc EXCEPT ![Handler(h)] = RateLocals]
       ELSE /\ pc' = [pc EXCEPT ![Handler(h)] = "load"]
            /\ UNCHANGED <<loc, out>>
    /\ UNCHANGED <<cfg, ch, wg, panicked, now>>

\* line 169: append(requests[clientIP], now), the read of the map
RateLoad(h) ==
    /\ At(Handler(h), "load")
    /\ loc' = [loc EXCEPT ![Handler(h)].times = requests[loc[Handler(h)].clientIP]]
    /\ pc' = [pc EXCEPT ![Handler(h)] = "store"]
    /\ UNCHANGED <<cfg, ch, wg, out, panicked, now>>

\* line 169-170: requests[clientIP] = append(..., now); c.Next()
RateStore(h) ==
    /\ At(Handler(h), "store")
    /\ loc' = [loc EXCEPT ![Main].requests[loc[Handler(h)].clientIP] =
                              Append(loc[Handler(h)].times, loc[Handler(h)].t),
                          ![Handler(h)] = RateLocals]
    /\ out' = [out EXCEPT ![Handler(h)] = <<200>>]
    /\ pc' = [pc EXCEPT ![Handler(h)] = "idle"]
    /\ UNCHANGED <<cfg, ch, wg, panicked, now>>

\* line 141: the map has no lock: with one handler writing it while another
\* is in it, the runtime may stop the program.
RateFatal ==
    /\ panicked = "none"
    /\ \E h1, h2 \in 1..MaxInFlight :
          /\ h1 # h2
          /\ pc[Handler(h1)] \in {"clean", "store"}
          /\ pc[Handler(h2)] \in {"clean", "check", "load", "store"}
    /\ panicked' = "concurrent map writes"
    /\ UNCHANGED <<cfg, pc, loc, ch, wg, out, now>>

\* Time passes.
RateTick ==
    /\ At(Main, "idle")
    /\ now < MaxClock
    /\ now' = now + 1
    /\ UNCHANGED <<cfg, pc, loc, ch, wg, out, panicked>>

NextRateLimiter ==
    \/ \E h \in 1..MaxInFlight : RateArrive(h)
    \/ \E h \in 1..MaxInFlight : RateClean(h)
    \/ \E h \in 1..MaxInFlight : RateCheck(h)
    \/ \E h \in 1..MaxInFlight : RateLoad(h)
    \/ \E h \in 1..MaxInFlight : RateStore(h)
    \/ RateFatal
    \/ RateTick

SpecRateLimiter == InitRateLimiter /\ [][NextRateLimiter]_vars

\* C30 as claimed: after any sequence of requests the recorded times of a
\* client that are younger than the window number at most the limit (60 in
\* one minute in the source).
C30_AtMostLimitPerWindow ==
    \A c \in Clients : Len(ValidTimes(requests[c], now)) <= cfg.limit

====
